---- MODULE Spec2Model ----
(***************************************************************************)
(* A model of zoo.chronos.data.tsdataset.TSDataset: one dataset object,    *)
(* the scaler objects handed to it, and the calls a client can make on it. *)
(* Numbers are integers; a missing value (NaN) is the integer NaN below.   *)
(***************************************************************************)
EXTENDS Integers, Sequences, FiniteSets, TLC

VARIABLES df, feature_col, target_col, id_list, numpy_x, numpy_y,
          roll_feature, roll_target, id_sensitive, scaler,
          scalers, ret, hist,
          caller, store, trials, stopper, forecaster, trainer

vars == <<df, feature_col, target_col, id_list, numpy_x, numpy_y,
          roll_feature, roll_target, id_sensitive, scaler,
          scalers, ret, hist,
          caller, store, trials, stopper, forecaster, trainer>>

\* what stands around a dataset: the caller's own references to the arguments of
\* from_pandas, the object store and the trials of the search engine, its stopper,
\* a forecaster and a trainer
collaborators == <<caller, store, trials, stopper, forecaster, trainer>>

\* the dataset without the record of the last call
dataset_fields == <<df, feature_col, target_col, id_list, numpy_x, numpy_y,
                    roll_feature, roll_target, id_sensitive, scaler, scalers, hist>>

\* the dataset and the record of the last call
dataset_vars == <<dataset_fields, ret>>

\* ------------------------------------------------------------------ bounds
\* most rows a table has at construction
MaxRows == 3
\* largest lookback passed to roll
MaxLookback == 2
\* largest (integer) horizon passed to roll
MaxHorizon == 2
\* most gen_dt_feature calls in one run (feature_col grows by ten each call)
MaxGen == 1
\* most scale calls in one run (a repeated transform keeps shifting values)
MaxScale == 2
\* most unscale calls in one run
MaxUnscale == 1
\* most rows of a table that is cleaned (imputed, deduplicated, given features)
MaxPrepRows == 4

\* ------------------------------------------------------------ basic values
NaN == 0 - 1000
None == [tag |-> "None"]
Some(v) == [tag |-> "Some", val |-> v]
IsNone(o) == o.tag = "None"

id_col == "id"
dt_col == "datetime"
Ids == {0, 1}
ScalerIds == {"s1", "s2"}
NoScaler == "None"

Range(s) == {s[i] : i \in 1..Len(s)}

RECURSIVE Flatten(_)
Flatten(ss) == IF Len(ss) = 0 THEN <<>> ELSE Head(ss) \o Flatten(Tail(ss))

RECURSIVE SumSeq(_)
SumSeq(s) == IF Len(s) = 0 THEN 0 ELSE Head(s) + SumSeq(Tail(s))

Min(S) == CHOOSE m \in S : \A x \in S : m <= x

RECURSIVE SortedSeq(_)
SortedSeq(S) == IF S = {} THEN <<>> ELSE <<Min(S)>> \o SortedSeq(S \ {Min(S)})

\* position of the first occurrence, counted from 0 as list.index does; -1 when absent
IndexOf(s, x) == IF x \in Range(s) THEN Min({i \in 1..Len(s) : s[i] = x}) - 1 ELSE 0 - 1

Ok(v) == [raised |-> FALSE, val |-> v]
Raise(e) == [raised |-> TRUE, exc |-> e]

\* ------------------------------------------------------------- the table
\* A dataframe is its column labels and its rows in order; a row maps every
\* column label to a number.  Timestamps count hours from 2021-06-05 00:00,
\* a Saturday.
BaseColumns == <<"id", "datetime", "value", "value2", "extra">>

TIME_FEATURE == <<"MINUTE", "DAY", "DAYOFYEAR", "HOUR", "WEEKDAY", "WEEKOFYEAR", "MONTH">>
ADDITIONAL_TIME_FEATURE_HOUR == <<"IS_AWAKE", "IS_BUSY_HOURS">>
ADDITIONAL_TIME_FEATURE_WEEKDAY == <<"IS_WEEKEND">>

\* attr + "({})".format(dt_col): the label of a derived column
Suffixed(attr) ==
    CASE attr = "MINUTE" -> "MINUTE(datetime)"
      [] attr = "DAY" -> "DAY(datetime)"
      [] attr = "DAYOFYEAR" -> "DAYOFYEAR(datetime)"
      [] attr = "HOUR" -> "HOUR(datetime)"
      [] attr = "WEEKDAY" -> "WEEKDAY(datetime)"
      [] attr = "WEEKOFYEAR" -> "WEEKOFYEAR(datetime)"
      [] attr = "MONTH" -> "MONTH(datetime)"
      [] attr = "IS_AWAKE" -> "IS_AWAKE(datetime)"
      [] attr = "IS_BUSY_HOURS" -> "IS_BUSY_HOURS(datetime)"
      [] attr = "IS_WEEKEND" -> "IS_WEEKEND(datetime)"

B2I(b) == IF b THEN 1 ELSE 0

\* the value of one derived calendar feature for a timestamp
DtFeature(attr, t) ==
    LET day == 5 + (t \div 24)
        hour == t % 24
        weekday == (5 + (t \div 24)) % 7
    IN CASE attr = "MINUTE" -> 0
         [] attr = "DAY" -> day
         [] attr = "DAYOFYEAR" -> 151 + day
         [] attr = "HOUR" -> hour
         [] attr = "WEEKDAY" -> weekday
         [] attr = "WEEKOFYEAR" -> 22 + ((5 + (t \div 24)) \div 7)
         [] attr = "MONTH" -> 6
         [] attr = "IS_AWAKE" -> B2I(hour >= 6 /\ hour <= 23)
         [] attr = "IS_BUSY_HOURS" -> B2I((hour >= 7 /\ hour <= 9) \/ (hour >= 16 /\ hour <= 19))
         [] attr = "IS_WEEKEND" -> B2I(weekday >= 5)

\* df[df[id_col] == id_name]
SubDf(d, id_name) ==
    [columns |-> d.columns, rows |-> SelectSeq(d.rows, LAMBDA r : r[id_col] = id_name)]

\* pd.concat of frames that share their columns; an empty list is refused
pd_concat(df_list) ==
    IF Len(df_list) = 0 THEN Raise("ValueError")
    ELSE Ok([columns |-> df_list[1].columns,
             rows |-> Flatten([i \in 1..Len(df_list) |-> df_list[i].rows])])

\* the distinct values in the order of their first appearance
np_unique_first_seen(d, col) ==
    LET firsts == {i \in 1..Len(d.rows) :
                      \A j \in 1..(i - 1) : d.rows[j][col] # d.rows[i][col]}
    IN [k \in 1..Cardinality(firsts) |-> d.rows[SortedSeq(firsts)[k]][col]]

\* list(np.unique(column)): the distinct values in increasing order
np_unique(d, col) == SortedSeq({d.rows[i][col] : i \in 1..Len(d.rows)})

\* the frames of all entities, in _id_list order
Split(d, ids) == [i \in 1..Len(ids) |-> SubDf(d, ids[i])]

\* ----------------------------------------- impute / deduplicate / features
RECURSIVE PadRows(_, _, _)
\* forward fill: prev is the row above (already filled)
PadRows(rows, prev, cols) ==
    IF Len(rows) = 0 THEN <<>>
    ELSE LET r == [c \in DOMAIN Head(rows) |->
                     IF Head(rows)[c] = NaN THEN prev[c] ELSE Head(rows)[c]]
         IN <<r>> \o PadRows(Tail(rows), r, cols)

impute_timeseries_dataframe(d, mode, const_num) ==
    IF Len(d.rows) = 0 THEN d
    ELSE IF mode = "const"
    THEN [d EXCEPT !.rows = [i \in 1..Len(d.rows) |->
            [c \in DOMAIN d.rows[i] |->
                IF d.rows[i][c] = NaN THEN const_num ELSE d.rows[i][c]]]]
    ELSE LET first == [c \in DOMAIN d.rows[1] |->
                          IF d.rows[1][c] = NaN THEN 0 ELSE d.rows[1][c]]
         IN [d EXCEPT !.rows = <<first>> \o PadRows(Tail(d.rows), first, d.columns)]

\* keep the first of every group of identical rows
deduplicate_timeseries_dataframe(d) ==
    LET keep == {i \in 1..Len(d.rows) : \A j \in 1..(i - 1) : d.rows[j] # d.rows[i]}
        RECURSIVE Pick(_)
        Pick(i) == IF i > Len(d.rows) THEN <<>>
                   ELSE (IF i \in keep THEN <<d.rows[i]>> ELSE <<>>) \o Pick(i + 1)
    IN [d EXCEPT !.rows = Pick(1)]

AllTimeFeatures == TIME_FEATURE \o ADDITIONAL_TIME_FEATURE_HOUR \o ADDITIONAL_TIME_FEATURE_WEEKDAY

DerivedLabels == [i \in 1..Len(AllTimeFeatures) |-> Suffixed(AllTimeFeatures[i])]

AttrOfLabel(label) == AllTimeFeatures[1 + IndexOf(DerivedLabels, label)]

\* adds the derived columns (a label already present is overwritten, not repeated)
generate_dt_features(d) ==
    LET new == SelectSeq(DerivedLabels, LAMBDA c : c \notin Range(d.columns))
        allc == Range(d.columns) \cup Range(DerivedLabels)
    IN [columns |-> d.columns \o new,
        rows |-> [i \in 1..Len(d.rows) |->
                    [c \in allc |-> IF c \in Range(DerivedLabels)
                                    THEN DtFeature(AttrOfLabel(c), d.rows[i][dt_col])
                                    ELSE d.rows[i][c]]]]

\* ------------------------------------------------------------- arrays
\* A 3-d array is its shape <<samples, steps, columns>> and its data: a sequence
\* of samples, each a sequence of steps, each a sequence of column values.
NdArray(shape, data) == [tag |-> "ndarray", shape |-> shape, data |-> data]

\* np.concatenate(arrays, axis) for axis 0 and axis 2: an empty list is refused, and
\* so are arrays that differ on an axis other than the one joined
np_concatenate(arrs, axis) ==
    IF Len(arrs) = 0 THEN Raise("ValueError")
    ELSE IF axis = 0
    THEN IF \E i \in 1..Len(arrs) : arrs[i].shape[2] # arrs[1].shape[2]
                                     \/ arrs[i].shape[3] # arrs[1].shape[3]
         THEN Raise("ValueError")
         ELSE Ok(NdArray(<<SumSeq([i \in 1..Len(arrs) |-> arrs[i].shape[1]]),
                           arrs[1].shape[2], arrs[1].shape[3]>>,
                         Flatten([i \in 1..Len(arrs) |-> arrs[i].data])))
    ELSE IF \E i \in 1..Len(arrs) : arrs[i].shape[1] # arrs[1].shape[1]
                                     \/ arrs[i].shape[2] # arrs[1].shape[2]
         THEN Raise("ValueError")
         ELSE Ok(NdArray(<<arrs[1].shape[1], arrs[1].shape[2],
                           SumSeq([i \in 1..Len(arrs) |-> arrs[i].shape[3]])>>,
                         [s \in 1..arrs[1].shape[1] |->
                            [t \in 1..arrs[1].shape[2] |->
                               Flatten([i \in 1..Len(arrs) |-> arrs[i].data[s][t]])]]))

\* a[:, :, index_list] with 0-based indices: an index past the last axis is refused
TakeLastAxis(a, index_list) ==
    IF \E k \in 1..Len(index_list) : index_list[k] >= a.shape[3]
    THEN Raise("IndexError")
    ELSE Ok(NdArray(<<a.shape[1], a.shape[2], Len(index_list)>>,
                    [s \in 1..a.shape[1] |->
                       [t \in 1..a.shape[2] |->
                          [k \in 1..Len(index_list) |-> a.data[s][t][index_list[k] + 1]]]]))

\* list(range(lo, hi))
PyRange(lo, hi) == [k \in 1..(IF hi > lo THEN hi - lo ELSE 0) |-> lo + k - 1]

\* the values of the rows first..(first+steps-1) of a frame in the given columns
Window(d, first, steps, cols) ==
    [t \in 1..steps |-> [k \in 1..Len(cols) |-> d.rows[first + t - 1][cols[k]]]]

\* The windows of one entity.  x holds the target columns followed by the feature
\* columns over lookback rows; y holds the target columns over the horizon rows
\* that follow; horizon 0 gives no y.  Too few rows give zero windows.
roll_timeseries_dataframe(d, lookback, horizon, fcol, tcol) ==
    LET n == Len(d.rows)
        cnt == IF n - lookback - horizon + 1 > 0 THEN n - lookback - horizon + 1 ELSE 0
        xcols == tcol \o fcol
    IN <<NdArray(<<cnt, lookback, Len(xcols)>>,
                 [s \in 1..cnt |-> Window(d, s, lookback, xcols)]),
         IF horizon = 0 THEN None
         ELSE NdArray(<<cnt, horizon, Len(tcol)>>,
                      [s \in 1..cnt |-> Window(d, s + lookback, horizon, tcol)])>>

\* ------------------------------------------------------------- scalers
\* A scaler object subtracts from every column the smallest value it saw in that
\* column when it was fitted; missing values pass through.  cols remembers the
\* labels of the frame it was fitted on.
Unfitted == [fitted |-> FALSE, offset |-> <<>>, cols |-> <<>>]

\* df[cols].values: one sequence per row (a label may repeat)
Matrix(d, cols) == [i \in 1..Len(d.rows) |-> [k \in 1..Len(cols) |-> d.rows[i][cols[k]]]]

ColMin(M, k) ==
    LET present == {M[i][k] : i \in 1..Len(M)} \ {NaN}
    IN IF present = {} THEN 0 ELSE Min(present)

Shift(M, offset, sign) ==
    [i \in 1..Len(M) |-> [k \in 1..Len(M[i]) |->
        IF M[i][k] = NaN THEN NaN ELSE M[i][k] + sign * offset[k]]]

\* the checks a scaler makes on its input before it computes anything
BadInput(M, width) == Len(M) = 0 \/ width = 0

\* fit_transform: <<outcome, scaler afterwards>>
fit_transform(sc, M, cols) ==
    IF BadInput(M, Len(cols)) THEN <<Raise("ValueError"), sc>>
    ELSE LET off == [k \in 1..Len(cols) |-> ColMin(M, k)]
         IN <<Ok(Shift(M, off, 0 - 1)), [fitted |-> TRUE, offset |-> off, cols |-> cols]>>

transform(sc, M, cols) ==
    IF ~sc.fitted THEN Raise("NotFittedError")
    ELSE IF BadInput(M, Len(cols)) \/ Len(cols) # Len(sc.offset) THEN Raise("ValueError")
    ELSE Ok(Shift(M, sc.offset, 0 - 1))

inverse_transform(sc, M, cols) ==
    IF ~sc.fitted THEN Raise("NotFittedError")
    ELSE IF BadInput(M, Len(cols)) \/ Len(cols) # Len(sc.offset) THEN Raise("ValueError")
    ELSE Ok(Shift(M, sc.offset, 1))

\* df[cols] = M: column by column in list order, so a repeated label keeps the last
SetCols(d, cols, M) ==
    [d EXCEPT !.rows = [i \in 1..Len(d.rows) |->
        [c \in DOMAIN d.rows[i] |->
            IF c \in Range(cols)
            THEN M[i][CHOOSE k \in 1..Len(cols) :
                        cols[k] = c /\ \A j \in (k + 1)..Len(cols) : cols[j] # c]
            ELSE d.rows[i][c]]]]

\* unscale_timeseries_numpy(pred, scaler, scaler_index): undoes the scaling of
\* column j of pred with the fitted parameters of column scaler_index[j]
unscale_timeseries_numpy(pred, sc_id, scaler_index) ==
    IF sc_id = NoScaler THEN Raise("AttributeError")
    ELSE IF Len(scaler_index) # pred.shape[3]
            \/ \E j \in 1..Len(scaler_index) : scaler_index[j] >= Len(scalers[sc_id].offset)
    THEN Raise("IndexError")
    ELSE Ok(NdArray(pred.shape,
            [s \in 1..pred.shape[1] |-> [t \in 1..pred.shape[2] |->
                [j \in 1..pred.shape[3] |->
                    pred.data[s][t][j] + scalers[sc_id].offset[scaler_index[j] + 1]]]]))

\* ------------------------------------------------------ call arguments
NoneArg == [tag |-> "None"]
ListArg(l) == [tag |-> "list", val |-> l]
StrArg(x) == [tag |-> "str", val |-> x]

_to_list(item) ==
    IF item.tag = "list" THEN item.val
    ELSE IF item.tag = "None" THEN <<>>
    ELSE <<item.val>>

\* ------------------------------------------------------------- the object
\* roll_feature is None, or the very list object feature_col (RefFeature), or a
\* list of its own; RollFeature is the list it denotes now.
RefFeature == [tag |-> "feature_col"]
OwnList(l) == [tag |-> "list", val |-> l]

RollFeature == IF roll_feature.tag = "feature_col" THEN feature_col ELSE roll_feature.val
RollTarget == roll_target.val

Bool(b) == [tag |-> "bool", val |-> b]
\* truth value of self.id_sensitive (None is falsy)
IdSensitive == id_sensitive.tag = "bool" /\ id_sensitive.val

\* a dataset on its own: nothing stands around it
NoCollaborators ==
    /\ caller = None
    /\ store = None
    /\ trials = None
    /\ stopper = None
    /\ forecaster = None
    /\ trainer = None

\* ------------------------------------------------------------- construction
Variants == {"clean", "nan", "dup"}

\* Row p of the table built from the identifier sequence: the k-th row of an entity
\* has timestamp k-1, every cell of a clean table is different, the "nan" tables
\* miss some values and the "dup" tables repeat the row above within an entity.
InitRow(idSeq, variant, p) ==
    LET b == IF variant = "dup" /\ p % 2 = 0 /\ idSeq[p - 1] = idSeq[p] THEN p - 1 ELSE p
        k == Cardinality({j \in 1..(b - 1) : idSeq[j] = idSeq[b]})
    IN [c \in Range(BaseColumns) |->
          CASE c = "id" -> idSeq[b]
            [] c = "datetime" -> k
            [] c = "value" -> IF variant = "nan" /\ p % 2 = 0 THEN NaN ELSE 10 * b + 1
            [] c = "value2" -> 10 * b + 2
            [] c = "extra" -> IF variant = "nan" /\ p = 1 THEN NaN ELSE 10 * b + 3]

InitTable(idSeq, variant) ==
    [columns |-> BaseColumns, rows |-> [p \in 1..Len(idSeq) |-> InitRow(idSeq, variant, p)]]

IdSeqs == UNION {[1..n -> Ids] : n \in 0..MaxRows}

FeatureChoices == {<<>>, <<"extra">>}

\* TSDataset.__init__ on a table and schema that pass _check_basic_invariants
Construct(idSeq, variant, tcol, fcol) ==
    /\ NoCollaborators
    /\ df = InitTable(idSeq, variant)
    /\ id_list = np_unique(InitTable(idSeq, variant), id_col)
    /\ target_col = tcol
    /\ feature_col = fcol
    /\ numpy_x = None
    /\ numpy_y = None
    /\ roll_feature = None
    /\ roll_target = None
    /\ scaler = NoScaler
    /\ id_sensitive = None
    /\ scalers = [s \in ScalerIds |-> Unfitted]
    /\ ret = [op |-> "__init__", raised |-> FALSE, checked |-> TRUE]
    /\ hist = [rolled |-> FALSE, gen |-> 0, scale |-> 0, unscale |-> 0]

\* The tables of the life-cycle specification: the empty table, two entities of
\* different sizes, and two entities of the same size with their rows interleaved;
\* the first row is always of the entity that sorts last.
LifecycleIdSeqs == {<<>>, <<1, 1, 0>>, <<1, 0, 1, 0>>}

Init ==
    \E idSeq \in LifecycleIdSeqs, variant \in Variants :
        Construct(idSeq, variant, <<"value", "value2">>, <<"extra">>)

\* every table, clean or with missing or repeated rows
InitScale ==
    \E idSeq \in IdSeqs, variant \in Variants :
        Construct(idSeq, variant, <<"value", "value2">>, <<"extra">>)

\* every table without missing or repeated rows, with and without extra features
InitRoll ==
    \E idSeq \in IdSeqs, fcol \in FeatureChoices :
        Construct(idSeq, "clean", <<"value", "value2">>, fcol)

\* ------------------------------------------------------------- operations
ImputeModes == {"last", "const"}

\* impute that fills the whole table before it splits it by entity
impute_whole(mode, const_num) ==
    LET filled == impute_timeseries_dataframe(df, mode, const_num)
        res == pd_concat([i \in 1..Len(id_list) |-> SubDf(filled, id_list[i])])
    IN /\ df' = IF res.raised THEN df ELSE res.val
       /\ ret' = [op |-> "impute", raised |-> res.raised,
                  exc |-> IF res.raised THEN res.exc ELSE "",
                  mode |-> mode, checked |-> FALSE]
       /\ UNCHANGED collaborators /\ UNCHANGED <<feature_col, target_col, id_list, numpy_x, numpy_y, roll_feature,
                      roll_target, id_sensitive, scaler, scalers, hist>>

impute(mode, const_num) ==
    LET res == pd_concat([i \in 1..Len(id_list) |->
                   impute_timeseries_dataframe(SubDf(df, id_list[i]), mode, const_num)])
    IN /\ df' = IF res.raised THEN df ELSE res.val
       /\ ret' = [op |-> "impute", raised |-> res.raised,
                  exc |-> IF res.raised THEN res.exc ELSE "",
                  mode |-> mode, checked |-> FALSE]
       /\ UNCHANGED collaborators /\ UNCHANGED <<feature_col, target_col, id_list, numpy_x, numpy_y, roll_feature,
                      roll_target, id_sensitive, scaler, scalers, hist>>

\* deduplicate that compares the rows of the whole table without their identifier
deduplicate_by_time ==
    LET alike(a, b) == \A c \in (DOMAIN a) \ {id_col} : a[c] = b[c]
        keep == {i \in 1..Len(df.rows) :
                    \A j \in 1..(i - 1) : ~alike(df.rows[j], df.rows[i])}
        kept == [df EXCEPT !.rows = [k \in 1..Cardinality(keep) |->
                                        df.rows[SortedSeq(keep)[k]]]]
        res == pd_concat([i \in 1..Len(id_list) |-> SubDf(kept, id_list[i])])
    IN /\ df' = IF res.raised THEN df ELSE res.val
       /\ ret' = [op |-> "deduplicate", raised |-> res.raised,
                  exc |-> IF res.raised THEN res.exc ELSE "", checked |-> FALSE,
                  rows_before |-> Len(df.rows)]
       /\ UNCHANGED collaborators /\ UNCHANGED <<feature_col, target_col, id_list, numpy_x, numpy_y, roll_feature,
                      roll_target, id_sensitive, scaler, scalers, hist>>

deduplicate ==
    LET res == pd_concat([i \in 1..Len(id_list) |->
                   deduplicate_timeseries_dataframe(SubDf(df, id_list[i]))])
    IN /\ df' = IF res.raised THEN df ELSE res.val
       /\ ret' = [op |-> "deduplicate", raised |-> res.raised,
                  exc |-> IF res.raised THEN res.exc ELSE "", checked |-> FALSE,
                  rows_before |-> Len(df.rows)]
       /\ UNCHANGED collaborators /\ UNCHANGED <<feature_col, target_col, id_list, numpy_x, numpy_y, roll_feature,
                      roll_target, id_sensitive, scaler, scalers, hist>>

\* the hour features ahead of the others
increased_attrbutes_hour_first ==
    ADDITIONAL_TIME_FEATURE_HOUR \o TIME_FEATURE \o ADDITIONAL_TIME_FEATURE_WEEKDAY

\* the list that gen_dt_feature appends to feature_col
increased_attrbutes == AllTimeFeatures

\* an append that skips the names the list already holds
feature_col_iadd_once(fcol, added) ==
    fcol \o SelectSeq(added, LAMBDA c : c \notin Range(fcol))

\* "self.feature_col += [...]": the list grows by all the names
feature_col_iadd(fcol, added) == fcol \o added

gen_dt_feature ==
    LET res == pd_concat([i \in 1..Len(id_list) |->
                   generate_dt_features(SubDf(df, id_list[i]))])
    IN /\ hist' = [hist EXCEPT !.gen = @ + 1]
       /\ df' = IF res.raised THEN df ELSE res.val
       /\ feature_col' = IF res.raised THEN feature_col
                         ELSE feature_col_iadd(feature_col,
                                               [i \in 1..Len(increased_attrbutes) |->
                                                   Suffixed(increased_attrbutes[i])])
       /\ ret' = [op |-> "gen_dt_feature", raised |-> res.raised,
                  exc |-> IF res.raised THEN res.exc ELSE "", checked |-> FALSE]
       /\ UNCHANGED collaborators /\ UNCHANGED <<target_col, id_list, numpy_x, numpy_y, roll_feature,
                      roll_target, id_sensitive, scaler, scalers>>

\* to_numpy without its guard
to_numpy_result_unguarded(x, y) == Ok(<<x, y>>)

to_numpy_result(x, y) == IF IsNone(x) THEN Raise("RuntimeError") ELSE Ok(<<x, y>>)

to_numpy ==
    /\ ret' = [op |-> "to_numpy", raised |-> to_numpy_result(numpy_x, numpy_y).raised,
               out |-> to_numpy_result(numpy_x, numpy_y)]
    /\ UNCHANGED collaborators /\ UNCHANGED <<df, feature_col, target_col, id_list, numpy_x, numpy_y, roll_feature,
                   roll_target, id_sensitive, scaler, scalers, hist>>

\* the feature axis whatever the mode
concat_axis_feature(sensitive) == 2

concat_axis(sensitive) == IF sensitive THEN 2 ELSE 0

\* the column order roll asks for in wide mode
reindex_list(num_id, num_target_col, num_feature_col) ==
    LET feature_start_idx == num_target_col * num_id
    IN Flatten([n \in 1..num_id |->
          PyRange((n - 1) * num_target_col, n * num_target_col)
          \o PyRange(feature_start_idx + (n - 1) * num_feature_col,
                     feature_start_idx + n * num_feature_col)])

\* horizon 0 keeps the target tensor of the roll before
roll_numpy_y_keep(horizon, rolling_result, axis) ==
    IF horizon # 0
    THEN np_concatenate([i \in 1..Len(rolling_result) |-> rolling_result[i][2]], axis)
    ELSE Ok(numpy_y)

\* a target tensor, once there is one, is never computed again
roll_numpy_y_stale(horizon, rolling_result, axis) ==
    IF ~IsNone(numpy_y) THEN Ok(numpy_y)
    ELSE IF horizon # 0
    THEN np_concatenate([i \in 1..Len(rolling_result) |-> rolling_result[i][2]], axis)
    ELSE Ok(None)

\* numpy_y after the concatenation step of roll
roll_numpy_y(horizon, rolling_result, axis) ==
    IF horizon # 0
    THEN np_concatenate([i \in 1..Len(rolling_result) |-> rolling_result[i][2]], axis)
    ELSE Ok(None)

RollRet(lookback, horizon, fc_arg, tc_arg, sensitive, exc) ==
    [op |-> "roll", raised |-> exc # "", exc |-> exc, lookback |-> lookback,
     horizon |-> horizon, feature_col |-> fc_arg, target_col |-> tc_arg,
     id_sensitive |-> sensitive, had_y |-> ~IsNone(numpy_y)]

roll(lookback, horizon, fc_arg, tc_arg, sensitive) ==
    LET fcol == IF fc_arg.tag # "None" THEN _to_list(fc_arg) ELSE feature_col
        tcol == IF tc_arg.tag # "None" THEN _to_list(tc_arg) ELSE target_col
        num_id == Len(id_list)
        num_feature_col == Len(feature_col)
        num_target_col == Len(target_col)
        rolling_result == [i \in 1..num_id |->
            roll_timeseries_dataframe(SubDf(df, id_list[i]), lookback, horizon, fcol, tcol)]
        axis == concat_axis(sensitive)
        cx == np_concatenate([i \in 1..num_id |-> rolling_result[i][1]], axis)
        cy == roll_numpy_y(horizon, rolling_result, axis)
        rx == TakeLastAxis(cx.val, reindex_list(num_id, num_target_col, num_feature_col))
    IN /\ roll_feature' = IF fc_arg.tag # "None" THEN OwnList(fcol) ELSE RefFeature
       /\ roll_target' = OwnList(tcol)
       /\ id_sensitive' = Bool(sensitive)
       /\ hist' = [hist EXCEPT !.rolled = TRUE]
       /\ IF cx.raised
          THEN /\ UNCHANGED <<numpy_x, numpy_y>>
               /\ ret' = RollRet(lookback, horizon, fc_arg, tc_arg, sensitive, cx.exc)
          ELSE IF cy.raised
          THEN /\ numpy_x' = cx.val
               /\ UNCHANGED numpy_y
               /\ ret' = RollRet(lookback, horizon, fc_arg, tc_arg, sensitive, cy.exc)
          ELSE IF sensitive /\ rx.raised
          THEN /\ numpy_x' = cx.val
               /\ numpy_y' = cy.val
               /\ ret' = RollRet(lookback, horizon, fc_arg, tc_arg, sensitive, rx.exc)
          ELSE /\ numpy_x' = IF sensitive THEN rx.val ELSE cx.val
               /\ numpy_y' = cy.val
               /\ ret' = RollRet(lookback, horizon, fc_arg, tc_arg, sensitive, "")
       /\ UNCHANGED collaborators /\ UNCHANGED <<df, feature_col, target_col, id_list, scaler, scalers>>

\* the columns handed to the scaler, in order
scale_columns(tcol, fcol) == tcol \o fcol

\* always refits
scale_method_refit(fit) == "fit_transform"

\* which scaler method scale uses
scale_method(fit) == IF fit THEN "fit_transform" ELSE "transform"

scale(s, fit) ==
    LET cols == scale_columns(target_col, feature_col)
        M == Matrix(df, cols)
        how == scale_method(fit)
        ft == fit_transform(scalers[s], M, cols)
        out == IF how = "fit_transform" THEN ft[1] ELSE transform(scalers[s], M, cols)
    IN /\ hist.scale < MaxScale
       /\ hist' = [hist EXCEPT !.scale = @ + 1]
       /\ scalers' = IF how = "fit_transform" THEN [scalers EXCEPT ![s] = ft[2]] ELSE scalers
       /\ df' = IF out.raised THEN df ELSE SetCols(df, cols, out.val)
       /\ scaler' = IF out.raised THEN scaler ELSE s
       /\ ret' = [op |-> "scale", raised |-> out.raised,
                  exc |-> IF out.raised THEN out.exc ELSE "",
                  scaler |-> s, fit |-> fit, called |-> how, passed |-> cols,
                  before |-> df, scaler_before |-> scalers[s], checked |-> FALSE]
       /\ UNCHANGED collaborators /\ UNCHANGED <<feature_col, target_col, id_list, numpy_x, numpy_y, roll_feature,
                      roll_target, id_sensitive>>

\* features before targets
unscale_columns_swapped(tcol, fcol) == fcol \o tcol

\* the columns unscale hands to the scaler, in order
unscale_columns(tcol, fcol) == tcol \o fcol

\* unscale that returns quietly when no scaler is stored
unscale_quiet ==
    LET cols == unscale_columns(target_col, feature_col)
        out == IF scaler = NoScaler THEN Ok(Matrix(df, cols))
               ELSE inverse_transform(scalers[scaler], Matrix(df, cols), cols)
    IN /\ hist.unscale < MaxUnscale
       /\ hist' = [hist EXCEPT !.unscale = @ + 1]
       /\ df' = IF out.raised THEN df ELSE SetCols(df, cols, out.val)
       /\ ret' = [op |-> "unscale", raised |-> out.raised,
                  exc |-> IF out.raised THEN out.exc ELSE "", checked |-> FALSE]
       /\ UNCHANGED collaborators /\ UNCHANGED <<feature_col, target_col, id_list, numpy_x, numpy_y, roll_feature,
                      roll_target, id_sensitive, scaler, scalers>>

unscale ==
    LET cols == unscale_columns(target_col, feature_col)
        out == IF scaler = NoScaler THEN Raise("AttributeError")
               ELSE inverse_transform(scalers[scaler], Matrix(df, cols), cols)
    IN /\ hist.unscale < MaxUnscale
       /\ hist' = [hist EXCEPT !.unscale = @ + 1]
       /\ df' = IF out.raised THEN df ELSE SetCols(df, cols, out.val)
       /\ ret' = [op |-> "unscale", raised |-> out.raised,
                  exc |-> IF out.raised THEN out.exc ELSE "", checked |-> FALSE]
       /\ UNCHANGED collaborators /\ UNCHANGED <<feature_col, target_col, id_list, numpy_x, numpy_y, roll_feature,
                      roll_target, id_sensitive, scaler, scalers>>

\* positions within the rolled targets instead of the dataset's targets
scaler_index_rolled(tcol, rtarget, repeat_factor) ==
    Flatten([r \in 1..repeat_factor |->
                [i \in 1..Len(rtarget) |-> IndexOf(rtarget, rtarget[i])]])

\* the index list of _unscale_predict_numpy; -1 marks a name list.index does not find
scaler_index(tcol, rtarget, repeat_factor) ==
    Flatten([r \in 1..repeat_factor |->
                [i \in 1..Len(rtarget) |-> IndexOf(tcol, rtarget[i])]])

_unscale_predict_numpy(pred) ==
    LET repeat_factor == IF IdSensitive THEN Len(id_list) ELSE 1
        idx == scaler_index(target_col, RollTarget, repeat_factor)
        out == IF IsNone(roll_target) THEN Raise("TypeError")
               ELSE IF \E k \in 1..Len(idx) : idx[k] < 0 THEN Raise("ValueError")
               ELSE unscale_timeseries_numpy(pred, scaler, idx)
        called == ~IsNone(roll_target) /\ \A k \in 1..Len(idx) : idx[k] >= 0
    IN /\ ret' = [op |-> "_unscale_predict_numpy", raised |-> out.raised,
                  passed |-> IF called THEN Some(idx) ELSE None, out |-> out]
       /\ UNCHANGED collaborators /\ UNCHANGED <<df, feature_col, target_col, id_list, numpy_x, numpy_y, roll_feature,
                      roll_target, id_sensitive, scaler, scalers, hist>>

\* ------------------------------------------------------------- inputs
\* <<feature_col, target_col>> arguments of roll: the defaults, a strict sub-list of
\* the features, a strict sub-list of the targets, and a single name with the
\* targets reordered
ColumnArgs == {<<NoneArg, NoneArg>>,
               <<ListArg(<<>>), NoneArg>>,
               <<NoneArg, ListArg(<<"value2">>)>>,
               <<StrArg("extra"), ListArg(<<"value2", "value">>)>>}

\* the column arguments of the life-cycle specification
LifecycleColumnArgs == {<<NoneArg, NoneArg>>,
                        <<NoneArg, ListArg(<<"value2">>)>>,
                        <<StrArg("extra"), ListArg(<<"value2", "value">>)>>}

\* a prediction shaped like numpy_y, or a single cell when there is none
Preds == IF IsNone(numpy_y) THEN {NdArray(<<1, 1, 1>>, <<<<<<0>>>>>>)} ELSE {numpy_y}

\* The whole life of a dataset: every operation, one scaler object, windows of
\* lookback 1 and horizon 1.
Next ==
    \/ \E mode \in ImputeModes : impute(mode, 0)
    \/ deduplicate
    \/ hist.gen < MaxGen /\ gen_dt_feature
    \/ \E cols \in LifecycleColumnArgs, sensitive \in BOOLEAN :
          roll(1, 1, cols[1], cols[2], sensitive)
    \/ to_numpy
    \/ \E fit \in BOOLEAN : scale("s1", fit)
    \/ unscale
    \/ \E pred \in Preds : _unscale_predict_numpy(pred)

Spec == Init /\ [][Next]_vars

\* Scaling in depth: two scaler objects, on tables that are cleaned and extended in
\* between.
NextScale ==
    \/ \E mode \in ImputeModes : impute(mode, 0)
    \/ deduplicate
    \/ hist.gen < MaxGen /\ gen_dt_feature
    \/ \E s \in ScalerIds, fit \in BOOLEAN : scale(s, fit)
    \/ unscale

SpecScale == InitScale /\ [][NextScale]_vars

\* Windowing in depth: every table, rolled with every lookback, horizon, column
\* choice and mode, before and after the derived features are added.
NextRoll ==
    \/ hist.gen < MaxGen /\ gen_dt_feature
    \/ \E lookback \in 1..MaxLookback, horizon \in 0..MaxHorizon,
          cols \in ColumnArgs, sensitive \in BOOLEAN :
          roll(lookback, horizon, cols[1], cols[2], sensitive)

SpecRoll == InitRoll /\ [][NextRoll]_vars

\* ------------------------------------------------- construction from arguments
\* An argument that is a number where a name, a list or a table is expected.
IntArg(n) == [tag |-> "int", val |-> n]
FrameArg(t) == [tag |-> "DataFrame", val |-> t]

\* the column label that is the integer 0 and not a text string
IntLabel == "0 (int)"

_DEFAULT_ID_COL_NAME == "id"
_DEFAULT_ID_PLACEHOLDER == 0

\* isinstance(item, expect_type)
_check_type(item, expect_type) == item.tag = expect_type

\* col_name in df.columns
_check_col_within(d, col_name) == col_name \in Range(d.columns)

\* df[col_name].isna().sum() == 0
_check_col_no_na(d, col_name) ==
    /\ _check_col_within(d, col_name)
    /\ \A i \in 1..Len(d.rows) : d.rows[i][col_name] # NaN

\* the schema check: TRUE when every assertion passes
_check_basic_invariants(data, id_arg, dt_arg, target_arg, feature_arg) ==
    /\ _check_type(data, "DataFrame")
    /\ _check_type(id_arg, "str")
    /\ _check_type(dt_arg, "str")
    /\ _check_type(target_arg, "list")
    /\ _check_type(feature_arg, "list")
    /\ _check_col_within(data.val, id_arg.val)
    /\ _check_col_within(data.val, dt_arg.val)
    /\ \A k \in 1..Len(target_arg.val) : _check_col_within(data.val, target_arg.val[k])
    /\ \A k \in 1..Len(feature_arg.val) : _check_col_within(data.val, feature_arg.val[k])
    /\ _check_col_no_na(data.val, dt_arg.val)
    /\ _check_col_no_na(data.val, id_arg.val)

\* _to_list refuses an item that is not a list, not None and not of the type expected
_to_list_accepts(item) == item.tag \in {"list", "None"} \/ _check_type(item, "str")

\* df[col] = value on every row; a new label goes last
AssignColumn(d, col, value) ==
    [columns |-> IF col \in Range(d.columns) THEN d.columns ELSE Append(d.columns, col),
     rows |-> [i \in 1..Len(d.rows) |->
                 [c \in Range(d.columns) \cup {col} |->
                     IF c = col THEN value ELSE d.rows[i][c]]]]

\* the state while no dataset object exists
NoObject ==
    /\ df = [columns |-> <<>>, rows |-> <<>>]
    /\ id_list = <<>>
    /\ target_col = <<>>
    /\ feature_col = <<>>
    /\ numpy_x = None
    /\ numpy_y = None
    /\ roll_feature = None
    /\ roll_target = None
    /\ scaler = NoScaler
    /\ id_sensitive = None
    /\ scalers = [s \in ScalerIds |-> Unfitted]
    /\ hist = [rolled |-> FALSE, gen |-> 0, scale |-> 0, unscale |-> 0]

\* what a constructor call leaves in ret: the arguments as the caller passed them;
\* checked tells whether _check_basic_invariants ran during the call
CallRet(op, exc, data, dt_arg, target_arg, id_arg, feature_arg) ==
    [op |-> op, raised |-> exc # "", exc |-> exc, data |-> data, dt_col |-> dt_arg,
     target_col |-> target_arg, id_col |-> id_arg, feature_col |-> feature_arg,
     checked |-> FALSE]

\* TSDataset(data, id_col=, dt_col=, feature_col=, target_col=): the fields of the new
\* object when the schema check passes, no object otherwise
__init__(data, id_arg, dt_arg, feature_arg, target_arg, call) ==
    IF _check_basic_invariants(data, id_arg, dt_arg, target_arg, feature_arg)
    THEN /\ df' = data.val
         /\ id_list' = np_unique(data.val, id_arg.val)
         /\ feature_col' = feature_arg.val
         /\ target_col' = target_arg.val
         /\ numpy_x' = None
         /\ numpy_y' = None
         /\ roll_feature' = None
         /\ roll_target' = None
         /\ scaler' = NoScaler
         /\ id_sensitive' = None
         /\ ret' = [call EXCEPT !.checked = TRUE]
         /\ UNCHANGED collaborators /\ UNCHANGED <<scalers, hist>>
    ELSE /\ ret' = [call EXCEPT !.raised = TRUE, !.exc = "AssertionError", !.checked = TRUE]
         /\ UNCHANGED collaborators /\ UNCHANGED <<df, feature_col, target_col, id_list, numpy_x, numpy_y,
                        roll_feature, roll_target, id_sensitive, scaler, scalers, hist>>

from_pandas(data, dt_arg, target_arg, id_arg, extra_feature_arg) ==
    LET call == CallRet("from_pandas", "", data, dt_arg, target_arg, id_arg,
                        extra_feature_arg)
    IN IF _check_type(data, "DataFrame") /\ _to_list_accepts(target_arg)
          /\ _to_list_accepts(extra_feature_arg)
       THEN __init__(IF id_arg.tag = "None"
                     THEN FrameArg(AssignColumn(data.val, _DEFAULT_ID_COL_NAME,
                                                _DEFAULT_ID_PLACEHOLDER))
                     ELSE data,
                     IF id_arg.tag = "None" THEN StrArg(_DEFAULT_ID_COL_NAME) ELSE id_arg,
                     dt_arg,
                     ListArg(_to_list(extra_feature_arg)),
                     ListArg(_to_list(target_arg)),
                     call)
       ELSE /\ ret' = [call EXCEPT !.raised = TRUE, !.exc = "AssertionError"]
            /\ UNCHANGED collaborators /\ UNCHANGED <<df, feature_col, target_col, id_list, numpy_x, numpy_y,
                           roll_feature, roll_target, id_sensitive, scaler, scalers,
                           hist>>

\* ------------------------------------------------- zoo.zouwu.data.TSDataset
\* df.reset_index(): the old row labels 0, 1, ... become the first column
reset_index(d) ==
    [columns |-> <<"index">> \o d.columns,
     rows |-> [i \in 1..Len(d.rows) |->
                 [c \in Range(d.columns) \cup {"index"} |->
                     IF c = "index" THEN i - 1 ELSE d.rows[i][c]]]]

\* check_datetime: the frame with its index reset, unless the timestamp column is
\* not of a datetime type or misses a value
check_datetime(d, dtype, dt_name) ==
    IF dtype # "datetime64" THEN Raise("ValueError")
    ELSE IF \E i \in 1..Len(d.rows) : d.rows[i][dt_name] = NaN THEN Raise("ValueError")
    ELSE Ok(reset_index(d))

\* the row labels (positions in the whole frame, from 0) of the rows of one entity
LabelsOf(d, id_name, id_name_col) ==
    {i - 1 : i \in {j \in 1..Len(d.rows) : d.rows[j][id_name_col] = id_name}}

\* check_uniform on the rows of one entity: dt[k] looks a row up by its label, so a
\* label that the entity does not own is a KeyError
check_uniform(d, id_name, id_name_col, dt_name) ==
    LET labels == LabelsOf(d, id_name, id_name_col)
        n == Cardinality(labels)
        dt(k) == d.rows[k + 1][dt_name]
    IN IF 1 \notin labels \/ 0 \notin labels THEN Raise("KeyError")
       ELSE IF \E i \in 1..(n - 1) : i \notin labels \/ (i - 1) \notin labels
       THEN Raise("KeyError")
       ELSE Ok([interval |-> dt(1) - dt(0),
                warned |-> \E i \in 1..(n - 1) : dt(i) - dt(i - 1) # dt(1) - dt(0)])

\* _clean_input: the cleaned frame and the interval of the first entity of _id_bag
_clean_input(d, dtype, id_bag, id_name_col, dt_name) ==
    LET checked == check_datetime(d, dtype, dt_name)
        uniform == [i \in 1..Len(id_bag) |->
                       check_uniform(checked.val, id_bag[i], id_name_col, dt_name)]
    IN IF checked.raised THEN checked
       ELSE IF \E i \in 1..Len(id_bag) : uniform[i].raised THEN Raise("KeyError")
       ELSE IF Len(id_bag) = 0 THEN Raise("IndexError")
       ELSE Ok([df |-> checked.val, _interval |-> uniform[1].val.interval,
                warned |-> \E i \in 1..Len(id_bag) : uniform[i].val.warned])

\* _check_input: types and column names, nothing about missing values
_check_input(data, id_arg, datetime_arg, target_arg, feature_arg) ==
    /\ _check_type(data, "DataFrame")
    /\ _check_type(id_arg, "str")
    /\ _check_type(datetime_arg, "str")
    /\ _check_type(target_arg, "list")
    /\ _check_type(feature_arg, "list")
    /\ _check_col_within(data.val, id_arg.val)
    /\ _check_col_within(data.val, datetime_arg.val)
    /\ \A k \in 1..Len(target_arg.val) : _check_col_within(data.val, target_arg.val[k])
    /\ \A k \in 1..Len(feature_arg.val) : _check_col_within(data.val, feature_arg.val[k])

\* zoo.zouwu.data.TSDataset(df, id_col, datetime_col, target_col, extra_feature_col):
\* the new object, when there is one, is ret.obj
zouwu_TSDataset(data, dtype, id_arg, datetime_arg, target_arg, extra_feature_arg) ==
    LET tcol == ListArg(_to_list(target_arg))
        fcol == ListArg(_to_list(extra_feature_arg))
        id_bag == np_unique(data.val, id_arg.val)
        cleaned == _clean_input(data.val, dtype, id_bag, id_arg.val, datetime_arg.val)
        outcome(exc, warned, obj) ==
            [op |-> "zouwu.TSDataset", raised |-> exc # "", exc |-> exc,
             data |-> data, dtype |-> dtype, dt_col |-> datetime_arg,
             target_col |-> target_arg, id_col |-> id_arg,
             feature_col |-> extra_feature_arg, warned |-> warned, obj |-> obj]
    IN /\ ret' =
            IF ~(_to_list_accepts(target_arg) /\ _to_list_accepts(extra_feature_arg))
            THEN outcome("AssertionError", FALSE, None)
            ELSE IF ~_check_input(data, id_arg, datetime_arg, tcol, fcol)
            THEN outcome("AssertionError", FALSE, None)
            ELSE IF cleaned.raised
            THEN outcome(cleaned.exc, FALSE, None)
            ELSE outcome("", cleaned.val.warned,
                         Some([df |-> cleaned.val.df, id_col |-> id_arg.val,
                               datetime_col |-> datetime_arg.val,
                               target_col |-> tcol.val, feature_col |-> fcol.val,
                               _id_bag |-> id_bag, _interval |-> cleaned.val._interval,
                               _numpy_x |-> None, _numpy_y |-> None]))
       /\ UNCHANGED collaborators /\ UNCHANGED <<df, feature_col, target_col, id_list, numpy_x, numpy_y,
                      roll_feature, roll_target, id_sensitive, scaler, scalers, hist>>

\* ------------------------------------------------- constructor inputs
\* d with one cell replaced
WithCell(d, p, c, v) == [d EXCEPT !.rows[p][c] = v]

NonEmptyIdSeqs == IdSeqs \ {<<>>}

\* The tables handed to a constructor: clean ones, ones that miss target or feature
\* values, ones that miss an identifier or a timestamp, ones with a column whose
\* label is the integer 0, and ones whose last timestamp is off the grid.
ConstructTables ==
    {InitTable(s, "clean") : s \in IdSeqs}
    \cup {InitTable(s, "nan") : s \in NonEmptyIdSeqs}
    \cup {WithCell(InitTable(s, "clean"), 1, c, NaN) :
             s \in NonEmptyIdSeqs, c \in {"id", "datetime"}}
    \cup {AssignColumn(InitTable(s, "clean"), IntLabel, 9) : s \in NonEmptyIdSeqs}
    \cup {WithCell(InitTable(s, "clean"), Len(s), "datetime", 9) : s \in NonEmptyIdSeqs}

DataArgs == {FrameArg(t) : t \in ConstructTables} \cup {IntArg(0)}
IdArgs == {StrArg("id"), NoneArg, IntArg(0), StrArg("missing")}
DtArgs == {StrArg("datetime"), IntArg(0), StrArg("missing")}
TargetArgs == {StrArg("value"), ListArg(<<"value", "value2">>), NoneArg, IntArg(0),
               StrArg("missing"), ListArg(<<"value", "missing">>), ListArg(<<IntLabel>>)}
FeatureArgs == {NoneArg, StrArg("extra"), ListArg(<<"extra">>), IntArg(0),
                ListArg(<<"missing">>)}
DtTypes == {"datetime64", "object"}

InitConstruct ==
    /\ NoObject
    /\ NoCollaborators
    /\ ret = [op |-> "none", raised |-> FALSE]

\* One constructor call: from_pandas, the class itself, or the zouwu class.
NextConstruct ==
    \/ /\ ret.op = "none"
       /\ \E data \in DataArgs, dt_arg \in DtArgs, target_arg \in TargetArgs,
             id_arg \in IdArgs, feature_arg \in FeatureArgs :
             from_pandas(data, dt_arg, target_arg, id_arg, feature_arg)
    \/ /\ ret.op = "none"
       /\ \E data \in DataArgs, dt_arg \in DtArgs, target_arg \in TargetArgs,
             id_arg \in IdArgs, feature_arg \in FeatureArgs :
             __init__(data, id_arg, dt_arg, feature_arg, target_arg,
                      CallRet("__init__", "", data, dt_arg, target_arg, id_arg,
                              feature_arg))
    \/ /\ ret.op = "none"
       /\ \E data \in DataArgs, dtype \in DtTypes, dt_arg \in DtArgs,
             target_arg \in TargetArgs, id_arg \in IdArgs, feature_arg \in FeatureArgs :
             zouwu_TSDataset(data, dtype, id_arg, dt_arg, target_arg, feature_arg)

SpecConstruct == InitConstruct /\ [][NextConstruct]_vars

\* ------------------------------------------------- tables to clean
\* A row is of one of three kinds: "val" has a timestamp and values of its own,
\* "nan" misses its value and its extra feature, and all "same" rows agree in
\* everything but the identifier.
PrepKinds == {"val", "nan", "same"}

PrepRow(idSeq, kinds, p) ==
    [c \in Range(BaseColumns) |->
        CASE c = "id" -> idSeq[p]
          [] c = "datetime" -> IF kinds[p] = "same" THEN 0 ELSE p
          [] c = "value" -> IF kinds[p] = "same" THEN 7
                            ELSE IF kinds[p] = "nan" THEN NaN ELSE 10 * p + 1
          [] c = "value2" -> IF kinds[p] = "same" THEN 8 ELSE 10 * p + 2
          [] c = "extra" -> IF kinds[p] = "same" THEN 9
                            ELSE IF kinds[p] = "nan" THEN NaN ELSE 10 * p + 3]

PrepTable(idSeq, kinds) ==
    [columns |-> BaseColumns,
     rows |-> [p \in 1..Len(idSeq) |-> PrepRow(idSeq, kinds, p)]]

PrepTables ==
    UNION {{PrepTable(idSeq, kinds) : idSeq \in [1..n -> Ids], kinds \in [1..n -> PrepKinds]} :
              n \in 0..MaxPrepRows}

\* the fields TSDataset.__init__ sets on a table that passes _check_basic_invariants
FieldsFrom(table, tcol, fcol) ==
    /\ df = table
    /\ id_list = np_unique(table, id_col)
    /\ target_col = tcol
    /\ feature_col = fcol
    /\ numpy_x = None
    /\ numpy_y = None
    /\ roll_feature = None
    /\ roll_target = None
    /\ scaler = NoScaler
    /\ id_sensitive = None
    /\ scalers = [s \in ScalerIds |-> Unfitted]
    /\ ret = [op |-> "__init__", raised |-> FALSE, checked |-> TRUE]
    /\ hist = [rolled |-> FALSE, gen |-> 0, scale |-> 0, unscale |-> 0]

\* TSDataset.__init__ on a given table that passes _check_basic_invariants, with
\* nothing around the dataset
ConstructFrom(table, tcol, fcol) == NoCollaborators /\ FieldsFrom(table, tcol, fcol)

InitPrep == \E table \in PrepTables : ConstructFrom(table, <<"value", "value2">>, <<"extra">>)

\* Cleaning in depth: every table of up to MaxPrepRows rows, imputed, deduplicated
\* and given its calendar features in any order.
NextPrep ==
    \/ \E mode \in ImputeModes : impute(mode, 5)
    \/ deduplicate
    \/ hist.gen < MaxGen /\ gen_dt_feature

SpecPrep == InitPrep /\ [][NextPrep]_vars

\* ------------------------------------------------- trials of the search engine
\* The driver puts its input into the object store once (_prepare_train_func and
\* _prepare_data_creator); every trial is a call of train_func or of
\* train_data_creator in a worker, and the statements of different trials
\* interleave.  A name in a trial is a handle: "store" is the stored object itself,
\* "got" the object the trial received from ray.get, "copy" its deep copy.

\* most trials in flight
MaxTrials == 2

Trials == 1..MaxTrials

Slots == {"input_data", "ft"}

\* what no statement of a trial touches
beside_trials == <<dataset_vars, caller, stopper, forecaster, trainer>>

\* ray.get that hands out the stored object itself
ray_get_shared(slot) == [ref |-> "store", val |-> store[slot]]

\* ray.get: the stored value, deserialised into an object of the reader's own
ray_get(slot) == [ref |-> "got", val |-> store[slot]]

\* deepcopy(x): a new object
deepcopy(ref) == "copy"

\* the object a trial's name denotes now
ObjAt(t, slot) ==
    CASE trials[t].ref[slot] = "store" -> store[slot]
      [] trials[t].ref[slot] = "got" -> trials[t].got[slot]
      [] trials[t].ref[slot] = "copy" -> trials[t].copy[slot]

\* trial t, left as record nt by its step, has written v into the object that its
\* name for slot denotes
Written(t, slot, v, nt) ==
    /\ UNCHANGED beside_trials
    /\ store' = IF nt.ref[slot] = "store" THEN [store EXCEPT ![slot] = v] ELSE store
    /\ trials' = [trials EXCEPT ![t] =
                    CASE nt.ref[slot] = "got" -> [nt EXCEPT !.got[slot] = v]
                      [] nt.ref[slot] = "copy" -> [nt EXCEPT !.copy[slot] = v]
                      [] OTHER -> nt]

\* some other trial is between its first and its last statement
Beside(t) == \E u \in Trials \ {t} : trials[u].pc \notin {"new", "done"}

NewTrial ==
    [pc |-> "new", config |-> None, beside |-> FALSE,
     ref |-> [s \in Slots |-> "none"], got |-> [s \in Slots |-> None],
     copy |-> [s \in Slots |-> None], out |-> None]

\* LastFillImpute().impute(df) and FillZeroImpute().impute(df)
imputer_impute(name, d) ==
    IF name = "LastFillImpute" THEN impute_timeseries_dataframe(d, "last", 0)
    ELSE impute_timeseries_dataframe(d, "const", 0)

\* IdentityTransformer(feature_cols, target_col)
IdentityTransformer(fcols, tcol) ==
    [feature_cols |-> fcols, target_col |-> tcol, fitted |-> None]

\* trial_ft.fit_transform(df, **config): the transformer remembers the configuration
\* and returns the selected feature columns and the target columns
ft_fit_transform(ft, d, config) ==
    [ft |-> [ft EXCEPT !.fitted = Some(config.selected_features)],
     out |-> Ok(<<Matrix(d, config.selected_features), Matrix(d, ft.target_col)>>)]

\* train_func, dataframe mode, up to "trial_input_df = deepcopy(global_input_df)"
train_func_load(t, config) ==
    LET global_ft == ray_get("ft")
        global_input_df == ray_get("input_data")
    IN /\ store.mode = "dataframe"
       /\ trials[t].pc = "new"
       /\ trials' = [trials EXCEPT ![t] =
             [@ EXCEPT !.pc = "loaded", !.config = config, !.beside = Beside(t),
                       !.ref = [s \in Slots |->
                                   IF s = "ft" THEN deepcopy(global_ft.ref)
                                   ELSE deepcopy(global_input_df.ref)],
                       !.got = [s \in Slots |->
                                   IF s = "ft" THEN global_ft.val ELSE global_input_df.val],
                       !.copy = [s \in Slots |->
                                   IF s = "ft" THEN global_ft.val ELSE global_input_df.val]]]
       /\ UNCHANGED <<store, beside_trials>>

\* "if imputer: trial_input_df = imputer.impute(trial_input_df)"; the imputer may
\* fill the frame it is given in place
train_func_impute(t) ==
    /\ store.mode = "dataframe"
    /\ trials[t].pc = "loaded"
    /\ LET nt == [trials[t] EXCEPT !.pc = "imputed", !.beside = @ \/ Beside(t)]
       IN IF trials[t].config.imputation = "none"
          THEN trials' = [trials EXCEPT ![t] = nt] /\ UNCHANGED <<store, beside_trials>>
          ELSE Written(t, "input_data",
                       imputer_impute(trials[t].config.imputation, ObjAt(t, "input_data")),
                       nt)

\* "(x_train, y_train) = trial_ft.fit_transform(trial_input_df, **config)"
train_func_fit_transform(t) ==
    /\ store.mode = "dataframe"
    /\ trials[t].pc = "imputed"
    /\ LET res == ft_fit_transform(ObjAt(t, "ft"), ObjAt(t, "input_data"), trials[t].config)
       IN Written(t, "ft", res.ft,
                  [trials[t] EXCEPT !.pc = "done", !.beside = @ \/ Beside(t),
                                    !.out = res.out])

\* the fields of a TSDataset on a table
TSDatasetObject(table, tcol, fcol) ==
    [df |-> table, id_list |-> np_unique(table, id_col), target_col |-> tcol,
     feature_col |-> fcol, numpy_x |-> None, numpy_y |-> None, roll_feature |-> None,
     roll_target |-> None, id_sensitive |-> None]

\* self.roll(lookback, horizon, feature_col) on the dataset object self: the object
\* afterwards and the exception, if any ("" for none)
roll_object(self, lookback, horizon, fc_arg) ==
    LET fcol == IF fc_arg.tag # "None" THEN _to_list(fc_arg) ELSE self.feature_col
        tcol == self.target_col
        num_id == Len(self.id_list)
        rolling_result == [i \in 1..num_id |->
            roll_timeseries_dataframe(SubDf(self.df, self.id_list[i]), lookback, horizon,
                                      fcol, tcol)]
        axis == concat_axis(FALSE)
        cx == np_concatenate([i \in 1..num_id |-> rolling_result[i][1]], axis)
        cy == roll_numpy_y(horizon, rolling_result, axis)
        set == [self EXCEPT !.roll_feature = IF fc_arg.tag # "None" THEN OwnList(fcol)
                                             ELSE RefFeature,
                            !.roll_target = OwnList(tcol),
                            !.id_sensitive = Bool(FALSE)]
    IN IF cx.raised THEN [exc |-> cx.exc, self |-> set]
       ELSE IF cy.raised THEN [exc |-> cy.exc, self |-> [set EXCEPT !.numpy_x = cx.val]]
       ELSE [exc |-> "", self |-> [set EXCEPT !.numpy_x = cx.val, !.numpy_y = cy.val]]

\* train_data_creator: "train_d = ray.get(train_data_id)"
train_data_creator_get(t, config) ==
    LET train_d == ray_get("input_data")
    IN /\ store.mode = "tsdataset"
       /\ trials[t].pc = "new"
       /\ trials' = [trials EXCEPT ![t] =
             [@ EXCEPT !.pc = "loaded", !.config = config, !.beside = Beside(t),
                       !.ref = [@ EXCEPT !["input_data"] = train_d.ref],
                       !.got = [@ EXCEPT !["input_data"] = train_d.val]]]
       /\ UNCHANGED <<store, beside_trials>>

\* train_data_creator: "train_d.roll(lookback=..., horizon=..., feature_col=...)"
train_data_creator_roll(t) ==
    /\ store.mode = "tsdataset"
    /\ trials[t].pc = "loaded"
    /\ LET res == roll_object(ObjAt(t, "input_data"), trials[t].config.past_seq_len,
                              trials[t].config.future_seq_len,
                              ListArg(trials[t].config.selected_features))
       IN Written(t, "input_data", res.self,
                  IF res.exc = ""
                  THEN [trials[t] EXCEPT !.pc = "rolled", !.beside = @ \/ Beside(t)]
                  ELSE [trials[t] EXCEPT !.pc = "done", !.beside = @ \/ Beside(t),
                                         !.out = Raise(res.exc)])

\* train_data_creator: ".to_numpy()" on what roll returned
train_data_creator_to_numpy(t) ==
    /\ store.mode = "tsdataset"
    /\ trials[t].pc = "rolled"
    /\ trials' = [trials EXCEPT ![t] =
          [@ EXCEPT !.pc = "done", !.beside = @ \/ Beside(t),
                    !.out = to_numpy_result(ObjAt(t, "input_data").numpy_x,
                                            ObjAt(t, "input_data").numpy_y)]]
    /\ UNCHANGED <<store, beside_trials>>

\* the configurations the searcher draws
FrameConfigs ==
    [imputation : {"none", "LastFillImpute", "FillZeroImpute"},
     selected_features : FeatureChoices]

DatasetConfigs ==
    [past_seq_len : 1..MaxLookback, future_seq_len : {1},
     selected_features : FeatureChoices]

\* the input tables of a search: no rows, one entity, two entities; clean or with
\* missing values
TrialTables ==
    {InitTable(idSeq, variant) : idSeq \in {<<>>, <<0, 0, 0>>, <<0, 1, 0>>},
                                 variant \in {"clean", "nan"}}

\* after _prepare_train_func or _prepare_data_creator: the input is in the object
\* store and no trial has started
InitTrials ==
    /\ NoObject
    /\ ret = [op |-> "none", raised |-> FALSE]
    /\ caller = None
    /\ stopper = None
    /\ forecaster = None
    /\ trainer = None
    /\ trials = [t \in Trials |-> NewTrial]
    /\ \E table \in TrialTables :
          \/ store = [mode |-> "dataframe", input_data |-> table,
                      ft |-> IdentityTransformer(<<"extra">>, <<"value", "value2">>)]
          \/ store = [mode |-> "tsdataset",
                      input_data |-> TSDatasetObject(table, <<"value", "value2">>,
                                                     <<"extra">>),
                      ft |-> None]

NextTrials ==
    \/ \E t \in Trials, config \in FrameConfigs : train_func_load(t, config)
    \/ \E t \in Trials : train_func_impute(t)
    \/ \E t \in Trials : train_func_fit_transform(t)
    \/ \E t \in Trials, config \in DatasetConfigs : train_data_creator_get(t, config)
    \/ \E t \in Trials : train_data_creator_roll(t)
    \/ \E t \in Trials : train_data_creator_to_numpy(t)

SpecTrials == InitTrials /\ [][NextTrials]_vars

\* ------------------------------------------------- the caller of from_pandas
\* The caller keeps its own names for the frame and the column lists it passed.
\* from_pandas copies the frame (df.copy(deep=True)), so the caller's frame is an
\* object of its own; _to_list returns a list argument itself, so a list the caller
\* passed is the very object the dataset holds as target_col or feature_col.

\* most calls of gen_dt_feature on one dataset
MaxRegen == 2
\* most calls of scale by the caller of from_pandas
MaxCallerScale == 1

\* what the caller's name denotes once _to_list(item) has become the dataset's attr
_to_list_held(item, attr) == IF item.tag = "list" THEN [tag |-> attr] ELSE item

\* the value, now, of the object a name of the caller denotes
CallerValue(h) ==
    CASE h.tag = "feature_col" -> ListArg(feature_col)
      [] h.tag = "target_col" -> ListArg(target_col)
      [] OTHER -> h

CallerTables ==
    {PrepTable(<<>>, <<>>), PrepTable(<<0, 0>>, <<"val", "val">>),
     PrepTable(<<1, 0, 1>>, <<"same", "same", "same">>),
     PrepTable(<<1, 0, 1>>, <<"val", "nan", "val">>)}

CallerTargetArgs == {StrArg("value"), ListArg(<<"value", "value2">>)}

CallerFeatureArgs == {NoneArg, StrArg("extra"), ListArg(<<"extra">>)}

\* tsdata = TSDataset.from_pandas(df, dt_col=, target_col=, id_col=, extra_feature_col=)
\* has returned
InitCaller ==
    \E table \in CallerTables, target_arg \in CallerTargetArgs,
       extra_feature_arg \in CallerFeatureArgs :
        /\ FieldsFrom(table, _to_list(target_arg), _to_list(extra_feature_arg))
        /\ caller = [df |-> FrameArg(table),
                     target_col |-> _to_list_held(target_arg, "target_col"),
                     extra_feature_col |-> _to_list_held(extra_feature_arg, "feature_col"),
                     passed |-> [df |-> FrameArg(table), target_col |-> target_arg,
                                 extra_feature_col |-> extra_feature_arg]]
        /\ store = None
        /\ trials = None
        /\ stopper = None
        /\ forecaster = None
        /\ trainer = None

\* The calls a caller makes on the dataset it got from from_pandas.
NextCaller ==
    \/ impute("last", 0)
    \/ deduplicate
    \/ hist.gen < MaxGen /\ gen_dt_feature
    \/ \E fc_arg \in {NoneArg, ListArg(<<"extra">>)}, sensitive \in BOOLEAN :
          roll(1, 1, fc_arg, NoneArg, sensitive)
    \/ hist.scale < MaxCallerScale /\ scale("s1", TRUE)
    \/ unscale

SpecCaller == InitCaller /\ [][NextCaller]_vars

\* gen_dt_feature called again and again, and the windows rolled after it.
NextRegen ==
    \/ hist.gen < MaxRegen /\ gen_dt_feature
    \/ \E fc_arg \in {NoneArg, ListArg(<<"extra">>)}, sensitive \in BOOLEAN :
          roll(1, 1, fc_arg, NoneArg, sensitive)

SpecRegen == InitCaller /\ [][NextRegen]_vars

\* ------------------------------------------------- stop criteria and reports
\* compile turns the recipe's runtime parameters into a TrialStopper; every trial
\* runs the loop of train_func, and after each report Tune asks the stopper whether
\* the trial ends there.

\* largest training_iteration a recipe asks for
MaxIter == 3

\* the metric values fit_eval returns
MetricValues == 1..3

\* the reward_metric values of the recipes
RewardMetrics == {2, 0 - 2}

\* a metric and what Evaluator.get_metric_mode answers for it
Metrics == {[name |-> "mse", mode |-> "min"], [name |-> "r2", mode |-> "max"]}

\* recipe.runtime_params(): num_samples, and any of training_iteration,
\* reward_metric and a key compile does not know
RuntimeParams(ti, rm, extra) ==
    LET keys == {"num_samples"}
                \cup (IF IsNone(ti) THEN {} ELSE {"training_iteration"})
                \cup (IF IsNone(rm) THEN {} ELSE {"reward_metric"})
                \cup (IF extra THEN {"epochs"} ELSE {})
    IN [k \in keys |-> CASE k = "num_samples" -> MaxTrials
                         [] k = "training_iteration" -> ti.val
                         [] k = "reward_metric" -> rm.val
                         [] OTHER -> 1]

RecipeParams ==
    {RuntimeParams(ti, rm, extra) :
        ti \in {None} \cup {Some(n) : n \in 1..MaxIter},
        rm \in {None} \cup {Some(v) : v \in RewardMetrics},
        extra \in BOOLEAN}

\* the threshold as the reward_metric itself, whatever the mode
stop_metric_plain(mode, reward_metric) == reward_metric

\* "-stop['reward_metric'] if self.mode == 'min' else stop['reward_metric']"
stop_metric(mode, reward_metric) ==
    IF mode = "min" THEN 0 - reward_metric ELSE reward_metric

\* dict d without key k
Del(d, k) == [j \in (DOMAIN d) \ {k} |-> d[j]]

\* d[k] = v
Set(d, k, v) == [j \in (DOMAIN d) \cup {k} |-> IF j = k THEN v ELSE d[j]]

\* the stop dict compile hands to TrialStopper
stop_dict(runtime_params, metric, mode) ==
    LET stop == Del(runtime_params, "num_samples")
        named == IF "reward_metric" \in DOMAIN stop
                 THEN Del(Set(stop, metric, stop_metric(mode, stop["reward_metric"])),
                          "reward_metric")
                 ELSE stop
    IN IF "training_iteration" \in DOMAIN named THEN named
       ELSE Set(named, "training_iteration", 1)

\* TrialStopper.__call__(trial_id, result)
__call__(self, result) ==
    \/ /\ self._metric \in DOMAIN self._stop
       /\ \/ self._mode = "max" /\ result.metric >= self._stop[self._metric]
          \/ self._mode = "min" /\ result.metric <= self._stop[self._metric]
    \/ /\ "training_iteration" \in DOMAIN self._stop
       /\ result.training_iteration >= self._stop["training_iteration"]

\* TrialStopper.stop_all()
stop_all == FALSE

\* what no step of a search touches
beside_search == <<dataset_fields, caller, store, forecaster, trainer>>

\* RayTuneSearchEngine.compile, as far as the stopper goes
compile(runtime_params, metric) ==
    LET redundant_stop_keys ==
            (DOMAIN Del(runtime_params, "num_samples"))
            \ {"reward_metric", "training_iteration"}
    IN /\ stopper' = IF redundant_stop_keys # {} THEN Raise("AssertionError")
                     ELSE Ok([_stop |-> stop_dict(runtime_params, metric.name, metric.mode),
                              _metric |-> metric.name, _mode |-> metric.mode])
       /\ ret' = [op |-> "compile", raised |-> redundant_stop_keys # {},
                  runtime_params |-> runtime_params, metric |-> metric.name,
                  mode |-> metric.mode]
       /\ UNCHANGED <<trials, beside_search>>

\* a better-or-equal value counts as a new best
has_best_reward_or_equal(mode, best_reward, reward) ==
    IF mode = "max" THEN IsNone(best_reward) \/ reward >= best_reward.val
    ELSE IsNone(best_reward) \/ reward <= best_reward.val

\* "best_reward is None or reward > best_reward" (max), "... < ..." (min)
has_best_reward(mode, best_reward, reward) ==
    IF mode = "max" THEN IsNone(best_reward) \/ reward > best_reward.val
    ELSE IsNone(best_reward) \/ reward < best_reward.val

\* train_func before its loop
NewRun ==
    [i |-> 0, best_reward |-> None, values |-> <<>>, saved |-> {}, report |-> None,
     stopped |-> FALSE]

\* the last iteration of "for i in range(1, 101)"
LastIteration == 100

\* One pass of the loop of train_func in trial t, with the value fit_eval returned,
\* and Tune's question to the stopper about the report.
train_func_iteration(t, result) ==
    LET i == trials[t].i + 1
        mode == stopper.val._mode
        has_best == has_best_reward(mode, trials[t].best_reward, result)
        best_reward == IF has_best THEN Some(result) ELSE trials[t].best_reward
        report_dict == [training_iteration |-> i, metric |-> result,
                        checkpoint |-> "best.ckpt", best_metric |-> best_reward.val]
    IN /\ stopper # None /\ ~stopper.raised
       /\ ~trials[t].stopped
       /\ trials[t].i < LastIteration
       /\ trials' = [u \in Trials |->
             IF u = t
             THEN [i |-> i, best_reward |-> best_reward,
                   values |-> Append(trials[t].values, result),
                   saved |-> IF has_best THEN trials[t].saved \cup {i} ELSE trials[t].saved,
                   report |-> Some(report_dict),
                   stopped |-> __call__(stopper.val, report_dict) \/ stop_all]
             ELSE [trials[u] EXCEPT !.stopped = @ \/ stop_all]]
       /\ UNCHANGED <<stopper, ret, beside_search>>

\* the engine before compile
InitSearch ==
    /\ NoObject
    /\ ret = [op |-> "none", raised |-> FALSE]
    /\ caller = None
    /\ store = None
    /\ forecaster = None
    /\ trainer = None
    /\ stopper = None
    /\ trials = [t \in Trials |-> NewRun]

NextSearch ==
    \/ /\ stopper = None
       /\ \E runtime_params \in RecipeParams, metric \in Metrics :
             compile(runtime_params, metric)
    \/ \E t \in Trials, result \in MetricValues : train_func_iteration(t, result)

SpecSearch == InitSearch /\ [][NextSearch]_vars

\* ------------------------------------------------- zouwu TCNForecaster
\* The forecaster holds the data configuration given at construction and an
\* internal model; forecaster.internal.model_built is the internal model's flag,
\* built_by remembers which call built it.

\* largest length of an axis and of a dimension of the data configuration
MaxDim == 2

\* the shapes of the arrays handed to fit: <<batch, steps, features>>
Shapes == {<<1, steps, features>> : steps \in 1..MaxDim, features \in 1..MaxDim}

\* TCNForecaster.__init__
TCNForecaster(past_seq_len, future_seq_len, input_feature_num, output_feature_num) ==
    [data_config |-> [past_seq_len |-> past_seq_len, future_seq_len |-> future_seq_len,
                      input_feature_num |-> input_feature_num,
                      output_feature_num |-> output_feature_num],
     internal |-> [model_built |-> FALSE],
     built_by |-> "none"]

\* what fit compares the last axis of y with
fit_y_feature_num(data_config) == data_config.input_feature_num

\* the four assertions of fit, in order: "" when all pass, else the exception
fit_check(data_config, x_shape, y_shape) ==
    IF data_config.past_seq_len # x_shape[Len(x_shape) - 1] THEN "AssertionError"
    ELSE IF data_config.future_seq_len # y_shape[Len(y_shape) - 1] THEN "AssertionError"
    ELSE IF data_config.input_feature_num # x_shape[Len(x_shape)] THEN "AssertionError"
    ELSE IF fit_y_feature_num(data_config) # y_shape[Len(y_shape)] THEN "AssertionError"
    ELSE ""

\* what no call on a forecaster touches
beside_forecaster == <<dataset_fields, caller, store, trials, stopper, trainer>>

\* how a call of the internal model ends: it returns, it raises before the model is
\* built, or it raises after
InternalOutcomes == {"returns", "raises unbuilt", "raises built"}

\* the internal model after fit_eval or restore ended with the given outcome
internal_after(internal, outcome) ==
    IF outcome = "raises unbuilt" THEN internal ELSE [internal EXCEPT !.model_built = TRUE]

ForecasterRet(op, exc, delegated) ==
    [op |-> op, raised |-> exc # "", exc |-> exc, delegated |-> delegated,
     built_before |-> forecaster.internal.model_built,
     built_by_before |-> forecaster.built_by]

\* TCNForecaster.fit(x, y)
fit(x_shape, y_shape, outcome) ==
    LET exc == fit_check(forecaster.data_config, x_shape, y_shape)
    IN /\ forecaster' =
             IF exc # "" THEN forecaster
             ELSE [forecaster EXCEPT
                      !.internal = internal_after(@, outcome),
                      !.built_by = IF outcome = "raises unbuilt" \/ @ # "none" THEN @
                                   ELSE "fit"]
       /\ ret' = [op |-> "fit", raised |-> exc # "" \/ outcome # "returns",
                  exc |-> IF exc # "" THEN exc
                          ELSE IF outcome = "returns" THEN "" ELSE "internal",
                  delegated |-> exc = "",
                  built_before |-> forecaster.internal.model_built,
                  built_by_before |-> forecaster.built_by,
                  x_shape |-> x_shape, y_shape |-> y_shape]
       /\ UNCHANGED beside_forecaster

\* a method that delegates whether or not the model is built
guarded_call_unguarded(internal) == ""

\* "if not self.internal.model_built: raise RuntimeError(...)"
guarded_call(internal) == IF ~internal.model_built THEN "RuntimeError" ELSE ""

\* TCNForecaster.predict(x)
predict ==
    /\ ret' = ForecasterRet("predict", guarded_call(forecaster.internal),
                            guarded_call(forecaster.internal) = "")
    /\ UNCHANGED <<forecaster, beside_forecaster>>

\* TCNForecaster.evaluate(x, y)
evaluate ==
    /\ ret' = ForecasterRet("evaluate", guarded_call(forecaster.internal),
                            guarded_call(forecaster.internal) = "")
    /\ UNCHANGED <<forecaster, beside_forecaster>>

\* TCNForecaster.save(checkpoint_file)
save ==
    /\ ret' = ForecasterRet("save", guarded_call(forecaster.internal),
                            guarded_call(forecaster.internal) = "")
    /\ UNCHANGED <<forecaster, beside_forecaster>>

\* TCNForecaster.restore(checkpoint_file)
restore(outcome) ==
    /\ forecaster' = [forecaster EXCEPT
                         !.internal = internal_after(@, outcome),
                         !.built_by = IF outcome = "raises unbuilt" \/ @ # "none" THEN @
                                      ELSE "restore"]
    /\ ret' = ForecasterRet("restore", IF outcome = "returns" THEN "" ELSE "internal", TRUE)
    /\ UNCHANGED beside_forecaster

\* a forecaster just constructed
InitForecaster ==
    /\ NoObject
    /\ ret = [op |-> "none", raised |-> FALSE]
    /\ caller = None
    /\ store = None
    /\ trials = None
    /\ stopper = None
    /\ trainer = None
    /\ \E past_seq_len \in 1..MaxDim, future_seq_len \in 1..MaxDim,
          input_feature_num \in 1..MaxDim, output_feature_num \in 1..MaxDim :
          forecaster = TCNForecaster(past_seq_len, future_seq_len, input_feature_num,
                                     output_feature_num)

NextForecaster ==
    \/ \E x_shape \in Shapes, y_shape \in Shapes, outcome \in InternalOutcomes :
          fit(x_shape, y_shape, outcome)
    \/ predict
    \/ evaluate
    \/ save
    \/ \E outcome \in InternalOutcomes : restore(outcome)

SpecForecaster == InitForecaster /\ [][NextForecaster]_vars

\* ------------------------------------------------- experimental_trainer.AutoTSTrainer
\* The trainer keeps its selected_features setting and an auto model; the auto model
\* keeps the search-space dict the constructor handed it, and _prepare_data_creator
\* writes into that dict.

\* most calls of fit on one trainer
MaxFits == 3

\* the search spaces users pass to the constructor
UserSearchSpaces ==
    {<<>>,
     [k \in {"hidden_dim"} |-> IntArg(32)],
     [k \in {"selected_features"} |-> NoneArg],
     [k \in {"selected_features"} |-> ListArg(<<"extra">>)]}

\* the selected_features settings of the constructor
SelectedFeatureSettings == {"all", "auto"}

\* dict.update with the two sequence lengths (the other common keys work alike)
search_space_update(search_space, past_seq_len, future_seq_len) ==
    Set(Set(search_space, "past_seq_len", past_seq_len), "future_seq_len", future_seq_len)

\* AutoModelFactory.create_auto_model(name, search_space): the model holds the dict
create_auto_model(search_space) == [search_space |-> search_space]

\* AutoTSTrainer.__init__(search_space=, selected_features=)
AutoTSTrainer(search_space, selected_features) ==
    [model |-> create_auto_model(search_space_update(search_space, NoneArg, NoneArg)),
     selected_features |-> selected_features,
     user_search_space |-> search_space,
     fits |-> 0]

\* search_space.get('selected_features')
search_space_get(search_space, key) ==
    IF key \in DOMAIN search_space THEN search_space[key] ELSE NoneArg

\* hp.choice_n(all_features, min_items=0, max_items=len(all_features))
choice_n(all_features) == [tag |-> "choice_n", val |-> all_features]

\* _prepare_data_creator(search_space, train_data, val_data): the search space
\* afterwards, or the exception
_prepare_data_creator(self, search_space, all_features) ==
    IF search_space_get(search_space, "selected_features").tag # "None"
    THEN Raise("ValueError")
    ELSE Ok(IF self.selected_features = "auto"
            THEN Set(search_space, "selected_features", choice_n(all_features))
            ELSE IF self.selected_features = "all"
            THEN Set(search_space, "selected_features", ListArg(all_features))
            ELSE search_space)

\* what no call on a trainer touches
beside_trainer == <<dataset_fields, caller, store, trials, stopper, forecaster>>

\* AutoTSTrainer.fit(data, validation_data=): with two TSDatasets (whose feature_col
\* is all_features) or with two data creator functions
AutoTSTrainer_fit(with_datasets, all_features) ==
    LET prepared == _prepare_data_creator(trainer, trainer.model.search_space, all_features)
    IN /\ trainer.fits < MaxFits
       /\ trainer' = [trainer EXCEPT
             !.fits = @ + 1,
             !.model.search_space = IF with_datasets /\ ~prepared.raised
                                    THEN prepared.val ELSE @]
       /\ ret' = [op |-> "AutoTSTrainer.fit", with_datasets |-> with_datasets,
                  raised |-> with_datasets /\ prepared.raised,
                  exc |-> IF with_datasets /\ prepared.raised THEN prepared.exc ELSE "",
                  call |-> trainer.fits + 1, all_features |-> all_features]
       /\ UNCHANGED beside_trainer

\* a trainer just constructed
InitTrainer ==
    /\ NoObject
    /\ ret = [op |-> "none", raised |-> FALSE]
    /\ caller = None
    /\ store = None
    /\ trials = None
    /\ stopper = None
    /\ forecaster = None
    /\ \E search_space \in UserSearchSpaces, selected_features \in SelectedFeatureSettings :
          trainer = AutoTSTrainer(search_space, selected_features)

NextTrainer ==
    \E with_datasets \in BOOLEAN, all_features \in FeatureChoices :
        AutoTSTrainer_fit(with_datasets, all_features)

SpecTrainer == InitTrainer /\ [][NextTrainer]_vars

\* =================================================================== claims
\* number of rows of an entity in the current table
RowsOf(e) == Cardinality({i \in 1..Len(df.rows) : df.rows[i][id_col] = e})

\* number of windows an entity of n rows gives
ValidWindows(n, lookback, horizon) ==
    IF n - lookback - horizon + 1 > 0 THEN n - lookback - horizon + 1 ELSE 0

EntityWindows(lookback, horizon) ==
    [i \in 1..Len(id_list) |-> ValidWindows(RowsOf(id_list[i]), lookback, horizon)]

LastRoll == ret.op = "roll"
DefaultColumns == ret.feature_col = NoneArg /\ ret.target_col = NoneArg

\* C1: while roll has never been called, to_numpy raises and returns no tuple,
\* whatever impute, deduplicate, gen_dt_feature, scale and unscale calls came before.
C1_ToNumpyRaisesBeforeRoll ==
    (ret.op = "to_numpy" /\ ~hist.rolled) => (ret.raised /\ ret.out = Raise("RuntimeError"))

C1_Witness ==
    /\ ret.op = "to_numpy" /\ ret.raised /\ ~hist.rolled
    /\ hist.gen > 0 /\ hist.scale > 0 /\ hist.unscale > 0 /\ scaler # NoScaler

\* C2 as stated: a pooled roll with an integer horizon H > 0 succeeds for every
\* table, and x and y have sum over entities of max(0, rows - L - H + 1) samples.
C2_Original ==
    (LastRoll /\ ~ret.id_sensitive /\ ret.horizon > 0) =>
        /\ ~ret.raised
        /\ numpy_x.shape[1] = SumSeq(EntityWindows(ret.lookback, ret.horizon))
        /\ Len(numpy_x.data) = SumSeq(EntityWindows(ret.lookback, ret.horizon))
        /\ ~IsNone(numpy_y)
        /\ numpy_y.shape[1] = SumSeq(EntityWindows(ret.lookback, ret.horizon))
        /\ Len(numpy_y.data) = SumSeq(EntityWindows(ret.lookback, ret.horizon))

\* C2 amended: the same for every table that has at least one entity; an entity
\* with fewer than L + H rows adds no sample and does not make roll fail.
C2_PooledSampleCount ==
    (LastRoll /\ ~ret.id_sensitive /\ ret.horizon > 0 /\ Len(id_list) > 0) =>
        /\ ~ret.raised
        /\ numpy_x.shape[1] = SumSeq(EntityWindows(ret.lookback, ret.horizon))
        /\ Len(numpy_x.data) = SumSeq(EntityWindows(ret.lookback, ret.horizon))
        /\ ~IsNone(numpy_y)
        /\ numpy_y.shape[1] = SumSeq(EntityWindows(ret.lookback, ret.horizon))
        /\ Len(numpy_y.data) = SumSeq(EntityWindows(ret.lookback, ret.horizon))

C2_Witness ==
    /\ LastRoll /\ ~ret.raised /\ ~ret.id_sensitive /\ ret.horizon > 0
    /\ Len(id_list) = 2
    /\ EntityWindows(ret.lookback, ret.horizon)[1] = 0
    /\ EntityWindows(ret.lookback, ret.horizon)[2] > 0
    /\ numpy_x.shape[1] = EntityWindows(ret.lookback, ret.horizon)[2]

\* C3 as stated: a wide roll (id_sensitive=True, default columns) on a table whose
\* entities have different row counts succeeds, with as many samples as the entity
\* with the fewest windows has.
C3_Original ==
    (LastRoll /\ ret.id_sensitive /\ DefaultColumns /\ Len(id_list) = 2
        /\ RowsOf(id_list[1]) # RowsOf(id_list[2])) =>
        /\ ~ret.raised
        /\ numpy_x.shape[1] = Min(Range(EntityWindows(ret.lookback, ret.horizon)))

\* C4 as stated: after a successful roll the last axis of x has len(feature_col)
\* entries in pooled mode and num_entities * len(feature_col) in wide mode, for the
\* feature list used by that roll.
C4_Original ==
    (LastRoll /\ ~ret.raised) =>
        numpy_x.shape[3] = (IF ret.id_sensitive THEN Len(id_list) ELSE 1) * Len(RollFeature)

\* how often v occurs in the sequence q
Count(q, v) == Cardinality({k \in 1..Len(q) : q[k] = v})
IsPermutationOf(a, b) ==
    Len(a) = Len(b) /\ \A v \in Range(a) \cup Range(b) : Count(a, v) = Count(b, v)

\* step t of sample s of every entity, targets then features, in _id_list order
EntityBlocks(s, t) ==
    Flatten([i \in 1..Len(id_list) |->
        [k \in 1..Len(RollTarget \o RollFeature) |->
            SubDf(df, id_list[i]).rows[s + t - 1][(RollTarget \o RollFeature)[k]]]])

\* C5 as stated: after a wide roll whose column lists are the defaults or sub-lists
\* of the dataset's lists, the reindexing stays in range and the last axis of x is a
\* permutation of the per-entity blocks [targets, features]: nothing dropped,
\* repeated or taken from elsewhere.
C5_Original ==
    (LastRoll /\ ret.id_sensitive /\ ret.exc # "ValueError"
        /\ Range(RollFeature) \subseteq Range(feature_col)
        /\ Range(RollTarget) \subseteq Range(target_col)) =>
        /\ ~ret.raised
        /\ \A s \in 1..numpy_x.shape[1] : \A t \in 1..numpy_x.shape[2] :
              IsPermutationOf(numpy_x.data[s][t], EntityBlocks(s, t))

\* C6: after a roll with horizon 0, to_numpy returns (x, None), also when a roll
\* before it had produced a target tensor; after a roll with another horizon the
\* second element is a tensor.
C6_HorizonZeroGivesNone ==
    (LastRoll /\ ~ret.raised) =>
        /\ ~to_numpy_result(numpy_x, numpy_y).raised
        /\ to_numpy_result(numpy_x, numpy_y).val[1] = numpy_x
        /\ (ret.horizon = 0 => to_numpy_result(numpy_x, numpy_y).val[2] = None)
        /\ (ret.horizon # 0 => to_numpy_result(numpy_x, numpy_y).val[2].tag = "ndarray")

C6_Witness ==
    /\ LastRoll /\ ~ret.raised /\ ret.horizon = 0 /\ ret.had_y
    /\ numpy_x.shape[1] > 0 /\ IsNone(numpy_y)

\* the identifier and timestamp columns of a table, row by row
KeyColumns(d) == [i \in 1..Len(d.rows) |-> <<d.rows[i][id_col], d.rows[i][dt_col]>>]

\* C7: scale(scaler, fit=True) directly followed by unscale() gives back the table
\* as it was before scale (every target and feature value), and neither call
\* changes the identifier column, the timestamp column or the order of the rows.
C7_ScaleUnscaleRoundTrip ==
    [][/\ (ret'.op = "scale" /\ ~ret'.raised) => KeyColumns(df') = KeyColumns(ret'.before)
       /\ (ret.op = "scale" /\ ret.fit /\ ~ret.raised /\ ret'.op = "unscale") =>
             (~ret'.raised /\ df' = ret.before /\ KeyColumns(df') = KeyColumns(df))]_vars

C7_Witness ==
    /\ ret.op = "unscale" /\ ~ret.raised
    /\ hist.scale = 1 /\ scalers[scaler].fitted
    /\ \E k \in 1..Len(scalers[scaler].offset) : scalers[scaler].offset[k] > 0
    /\ Len(df.rows) > 1

\* C8: scale(scaler, fit=True) fits the scaler on the frame and transforms it,
\* scale(scaler, fit=False) only transforms and leaves the scaler's fitted state as it
\* was; the frame passed has the columns target_col followed by feature_col, and after
\* a call that returns the dataset's stored scaler is the one passed in.
C8_ScaleUsesFitFlag ==
    ret.op = "scale" =>
        /\ ret.called = (IF ret.fit THEN "fit_transform" ELSE "transform")
        /\ ret.passed = target_col \o feature_col
        /\ (~ret.fit => scalers[ret.scaler] = ret.scaler_before)
        /\ (ret.fit /\ ~ret.raised =>
               /\ scalers[ret.scaler].fitted
               /\ scalers[ret.scaler].cols = ret.passed
               /\ scalers[ret.scaler].offset =
                     [k \in 1..Len(ret.passed) |-> ColMin(Matrix(ret.before, ret.passed), k)])
        /\ (~ret.raised => scaler = ret.scaler)

C8_Witness ==
    /\ ret.op = "scale" /\ ~ret.fit /\ ~ret.raised
    /\ scaler = "s2" /\ ret.scaler = "s2"
    /\ scalers["s2"] = ret.scaler_before
    /\ ret.before # df

\* C9: unscale() on a dataset with no stored scaler, and _unscale_predict_numpy
\* before any scale was stored or before any roll call, raise and return nothing,
\* and leave the table, the stored scaler and the rolled tensors as they were.
C9_OutOfOrderCallsRaise ==
    [][/\ (ret' # ret /\ ret'.op = "unscale" /\ scaler = NoScaler) =>
             (ret'.raised /\ UNCHANGED <<df, scaler, scalers, numpy_x, numpy_y>>)
       /\ (ret' # ret /\ ret'.op = "_unscale_predict_numpy"
             /\ (scaler = NoScaler \/ ~hist.rolled)) =>
             (ret'.raised /\ UNCHANGED <<df, scaler, scalers, numpy_x, numpy_y>>)]_vars

C9_Witness ==
    /\ ret.op = "unscale" /\ ret.raised /\ ret.exc = "AttributeError"
    /\ scaler = NoScaler /\ ~IsNone(numpy_x) /\ Len(df.rows) > 0

\* C10: once a scaler is stored and roll was called, the index list that
\* _unscale_predict_numpy hands to the inversion has len(roll_target) entries, or
\* num_entities times as many when id_sensitive; entry k is the position, among the
\* columns the stored scaler was fitted on, of rolled target number k mod
\* len(roll_target), also for a sub-list or a reordering of the targets.
C10_ScalerIndexMapsRolledTargets ==
    (ret.op = "_unscale_predict_numpy" /\ scaler # NoScaler /\ hist.rolled) =>
        /\ ~IsNone(ret.passed)
        /\ Len(ret.passed.val) =
              Len(RollTarget) * (IF IdSensitive THEN Len(id_list) ELSE 1)
        /\ \A k \in 1..Len(ret.passed.val) :
              ret.passed.val[k] =
                 IndexOf(scalers[scaler].cols, RollTarget[((k - 1) % Len(RollTarget)) + 1])

C10_Witness ==
    /\ ret.op = "_unscale_predict_numpy" /\ ~ret.raised
    /\ scaler # NoScaler /\ IdSensitive /\ Len(id_list) = 2
    /\ RollTarget = <<"value2", "value">>
    /\ ret.passed.val = <<1, 0, 1, 0>>

\* the names a constructor call refers to, as far as they can be read off its arguments
NamedColumns(r) ==
    (IF r.id_col.tag = "str" THEN {r.id_col.val} ELSE {})
    \cup (IF r.dt_col.tag = "str" THEN {r.dt_col.val} ELSE {})
    \cup (IF r.target_col.tag = "str" THEN {r.target_col.val}
          ELSE IF r.target_col.tag = "list" THEN Range(r.target_col.val) ELSE {})
    \cup (IF r.feature_col.tag = "str" THEN {r.feature_col.val}
          ELSE IF r.feature_col.tag = "list" THEN Range(r.feature_col.val) ELSE {})

\* a column of the table passed misses a value
MissesValue(r, col) ==
    /\ col \in Range(r.data.val.columns)
    /\ \E i \in 1..Len(r.data.val.rows) : r.data.val.rows[i][col] = NaN

\* the calls that C11 says must fail
C11_MustFail(r) ==
    \/ r.data.tag # "DataFrame"
    \/ r.id_col.tag # "str"
    \/ r.dt_col.tag # "str"
    \/ r.target_col.tag \notin {"str", "list"}
    \/ \E c \in NamedColumns(r) : c \notin Range(r.data.val.columns)
    \/ MissesValue(r, r.id_col.val)
    \/ MissesValue(r, r.dt_col.val)

\* C11 as stated: from_pandas produces no object whenever the table is not a
\* dataframe, the identifier or timestamp column name is not a string, the target
\* argument is neither a string nor a list, a named column is absent or the
\* identifier or timestamp column misses a value; it produces one for targets and
\* features given as a string or as a list of strings when nothing else is wrong.
C11_Original ==
    ret.op = "from_pandas" =>
        /\ C11_MustFail(ret) => ret.raised
        /\ (~C11_MustFail(ret) /\ ret.feature_col.tag \in {"str", "list"}
              /\ IntLabel \notin NamedColumns(ret)) => ~ret.raised

\* the names inside the list arguments of a constructor call
ListedNames(r) ==
    (IF r.target_col.tag = "list" THEN Range(r.target_col.val) ELSE {})
    \cup (IF r.feature_col.tag = "list" THEN Range(r.feature_col.val) ELSE {})

\* C12 as stated: from_pandas and the constructor reject a target or feature list
\* that holds a name which is not a text string, also when the table has a column
\* with that very label.
C12_Original ==
    (ret.op \in {"from_pandas", "__init__"} /\ IntLabel \in ListedNames(ret)) => ret.raised

MutatingMethods == {"impute", "deduplicate", "gen_dt_feature", "scale", "unscale"}

\* C13 as stated: _check_basic_invariants runs at construction and again at the end
\* of every impute, deduplicate, gen_dt_feature, scale and unscale call that
\* completes.
C13_Original ==
    /\ (ret.op = "__init__" /\ ~ret.raised) => ret.checked
    /\ (ret.op \in MutatingMethods /\ ~ret.raised) => ret.checked

Max(S) == CHOOSE m \in S : \A x \in S : m >= x

\* what forward filling gives row j of one entity in column c: the value itself, or
\* the nearest value above it in the entity, or 0 when there is none
LastFill(rows, j, c) ==
    LET seen == {k \in 1..j : rows[k][c] # NaN}
    IN IF seen = {} THEN 0 ELSE rows[Max(seen)][c]

\* C14: impute(mode="last") gives every missing target or feature value the most
\* recent value of the same column in the same entity, and 0 when the entity has no
\* earlier value; values of other entities are never used, whatever the order of the
\* rows and of the entities.
C14_ImputeLastFillsWithinEntity ==
    [][(ret'.op = "impute" /\ ret'.mode = "last" /\ ~ret'.raised) =>
          \A e \in Ids :
             /\ Len(SubDf(df', e).rows) = Len(SubDf(df, e).rows)
             /\ \A j \in 1..Len(SubDf(df, e).rows) :
                   \A c \in Range(target_col \o feature_col) :
                      SubDf(df', e).rows[j][c] = LastFill(SubDf(df, e).rows, j, c)]_vars

\* after impute("last"): an entity that starts with a missing value right below the
\* rows of another entity got 0, and some entity had two missing values in a row
C14_Witness ==
    /\ ret.op = "impute" /\ ret.mode = "last" /\ ~ret.raised
    /\ \E i \in 2..Len(df.rows) :
          /\ df.rows[i]["value"] = 0
          /\ df.rows[i - 1][id_col] # df.rows[i][id_col]
          /\ df.rows[i - 1]["value"] # 0
    /\ \E j \in 1..(Len(df.rows) - 2) :
          /\ \A k \in 1..2 : df.rows[j + k][id_col] = df.rows[j][id_col]
          /\ df.rows[j + 1]["value"] = df.rows[j]["value"]
          /\ df.rows[j + 2]["value"] = df.rows[j]["value"]
          /\ df.rows[j]["value"] > 0
          /\ df.rows[j]["datetime"] # 0
          /\ df.rows[j + 1]["datetime"] # 0
          /\ df.rows[j + 2]["datetime"] # 0

\* what tells one row of an entity from another one: its timestamp and second target
RowKeys(d, e) ==
    [j \in 1..Len(SubDf(d, e).rows) |->
        <<SubDf(d, e).rows[j][dt_col], SubDf(d, e).rows[j]["value2"]>>]

\* a is b with some entries left out
RECURSIVE IsSubSeq(_, _)
IsSubSeq(a, b) ==
    IF Len(a) = 0 THEN TRUE
    ELSE IF Len(b) = 0 THEN FALSE
    ELSE IF Head(a) = Head(b) THEN IsSubSeq(Tail(a), Tail(b))
    ELSE IsSubSeq(a, Tail(b))

\* the rows come entity by entity, in _id_list order
GroupedByIdList(d) ==
    \A i \in 1..Len(d.rows) : \A j \in (i + 1)..Len(d.rows) :
        IndexOf(id_list, d.rows[i][id_col]) <= IndexOf(id_list, d.rows[j][id_col])

\* C15: after impute, deduplicate or gen_dt_feature the rows are grouped by entity
\* in the order of the identifier list of construction, which holds the distinct
\* identifiers in increasing order; inside an entity the rows keep their order;
\* impute and gen_dt_feature keep the number of rows of every entity.
C15_RowsRegroupedInIdListOrder ==
    [][(ret'.op \in {"impute", "deduplicate", "gen_dt_feature"} /\ ~ret'.raised) =>
          /\ id_list' = SortedSeq({df.rows[i][id_col] : i \in 1..Len(df.rows)})
          /\ GroupedByIdList(df')
          /\ \A i \in 1..Len(df'.rows) : IndexOf(id_list, df'.rows[i][id_col]) >= 0
          /\ \A e \in Ids : IsSubSeq(RowKeys(df', e), RowKeys(df, e))
          /\ ret'.op # "deduplicate" => \A e \in Ids : RowKeys(df', e) = RowKeys(df, e)]_vars

\* a regrouped table whose first row at construction (timestamp 1) was of the entity
\* that sorts last: that row now stands below the rows of entity 0
C15_Witness ==
    /\ ret.op \in {"impute", "gen_dt_feature"} /\ ~ret.raised
    /\ id_list = <<0, 1>>
    /\ df.rows[1][id_col] = 0
    /\ \E i \in 3..Len(df.rows) : df.rows[i][dt_col] = 1 /\ df.rows[i][id_col] = 1

\* the rows of entity e, as a set
RowSet(d, e) == Range(SubDf(d, e).rows)

\* C16: deduplicate drops a row only when the same entity has the same row above it:
\* rows of different entities with the same timestamp and values all stay, every
\* entity keeps a row, and the table never grows.
C16_DeduplicateWithinEntity ==
    [][(ret'.op = "deduplicate" /\ ~ret'.raised) =>
          /\ Len(df'.rows) <= Len(df.rows)
          /\ \A e \in Ids :
                /\ RowSet(df', e) = RowSet(df, e)
                /\ (RowSet(df, e) # {} => Len(SubDf(df', e).rows) >= 1)
                /\ Cardinality(RowSet(df', e)) = Len(SubDf(df', e).rows)]_vars

\* a deduplicate that dropped a row and left two rows that differ in the identifier only
C16_Witness ==
    /\ ret.op = "deduplicate" /\ ~ret.raised
    /\ Len(df.rows) < ret.rows_before
    /\ \E i \in 1..Len(df.rows) : \E j \in 1..Len(df.rows) :
          /\ df.rows[i][id_col] # df.rows[j][id_col]
          /\ \A c \in Range(df.columns) \ {id_col} : df.rows[i][c] = df.rows[j][c]

\* C17: one gen_dt_feature call appends to feature_col, after the names it had, the
\* ten derived names in this order, each with the timestamp column name in
\* parentheses; target_col and the names listed before stay.
C17_GenDtFeatureAppendsTenNames ==
    [][(ret'.op = "gen_dt_feature" /\ ~ret'.raised) =>
          /\ feature_col' = feature_col \o
                <<"MINUTE(datetime)", "DAY(datetime)", "DAYOFYEAR(datetime)",
                  "HOUR(datetime)", "WEEKDAY(datetime)", "WEEKOFYEAR(datetime)",
                  "MONTH(datetime)", "IS_AWAKE(datetime)", "IS_BUSY_HOURS(datetime)",
                  "IS_WEEKEND(datetime)">>
          /\ target_col' = target_col]_vars

C17_Witness ==
    /\ ret.op = "gen_dt_feature" /\ ~ret.raised
    /\ Len(feature_col) = 11
    /\ feature_col[1] = "extra"
    /\ feature_col[2] = "MINUTE(datetime)"
    /\ feature_col[11] = "IS_WEEKEND(datetime)"
    /\ Len(df.rows) > 0
    /\ \A c \in Range(feature_col) : c \in Range(df.columns)

\* C18 as stated: a call that raises leaves the table, the feature and target lists,
\* numpy_x, numpy_y, roll_feature, roll_target, id_sensitive and the stored scaler
\* exactly as they were before the call; a failing roll keeps the tensors and the
\* recorded parameters of the roll before it.
C18_Original ==
    [][ret'.raised =>
          UNCHANGED <<df, feature_col, target_col, numpy_x, numpy_y, roll_feature,
                      roll_target, id_sensitive, scaler>>]_vars

\* the tensors <<x, y>> that the table, the column lists and the arguments of the
\* last roll determine, computed without looking at anything a roll left behind
FreshTensors ==
    LET fcol == IF ret.feature_col.tag # "None" THEN _to_list(ret.feature_col)
                ELSE feature_col
        tcol == IF ret.target_col.tag # "None" THEN _to_list(ret.target_col)
                ELSE target_col
        parts == [i \in 1..Len(id_list) |->
                    roll_timeseries_dataframe(SubDf(df, id_list[i]), ret.lookback,
                                              ret.horizon, fcol, tcol)]
        axis == IF ret.id_sensitive THEN 2 ELSE 0
        x == np_concatenate([i \in 1..Len(id_list) |-> parts[i][1]], axis).val
        y == IF ret.horizon = 0 THEN None
             ELSE np_concatenate([i \in 1..Len(id_list) |-> parts[i][2]], axis).val
    IN <<IF ret.id_sensitive
         THEN TakeLastAxis(x, reindex_list(Len(id_list), Len(target_col),
                                           Len(feature_col))).val
         ELSE x,
         y>>

\* C19: the tensors of a roll call that returns depend only on the table, the
\* dataset's column lists and the call's lookback, horizon, feature_col, target_col
\* and id_sensitive, not on the rolls made before it; so two such calls with the
\* same arguments on an unchanged table give identical tensors.
C19_RollDependsOnConfigOnly ==
    (LastRoll /\ ~ret.raised) => <<numpy_x, numpy_y>> = FreshTensors

\* a wide roll without targets that returned, on a dataset that was rolled with a
\* horizon before and has its calendar features
C19_Witness ==
    /\ LastRoll /\ ~ret.raised /\ ret.id_sensitive /\ ret.horizon = 0 /\ ret.had_y
    /\ Len(id_list) = 2 /\ hist.gen = 1
    /\ numpy_x.shape[1] > 0 /\ numpy_x.shape[3] > 10

\* a constructor call whose schema names present columns with arguments of the
\* right types, on a table that misses no identifier and no timestamp
ValidCall(r) ==
    /\ r.data.tag = "DataFrame"
    /\ r.id_col.tag = "str" /\ r.dt_col.tag = "str"
    /\ r.target_col.tag \in {"str", "list"}
    /\ r.feature_col.tag \in {"None", "str", "list"}
    /\ \A c \in NamedColumns(r) : c \in Range(r.data.val.columns) /\ c # IntLabel
    /\ ~MissesValue(r, r.id_col.val)
    /\ ~MissesValue(r, r.dt_col.val)

\* the timestamps of the rows of entity e of the table passed, in row order
TimesOf(r, e) ==
    LET sub == SelectSeq(r.data.val.rows, LAMBDA row : row[r.id_col.val] = e)
    IN [j \in 1..Len(sub) |-> sub[j][r.dt_col.val]]

\* C20 as stated: the zouwu TSDataset is constructed from every table with a valid
\* schema and a datetime-typed timestamp column without missing values, also when
\* the rows of several entities are interleaved or unevenly spaced; _id_bag holds
\* the distinct identifiers and _interval is the difference of the first two
\* timestamps of the first entity of _id_bag.  (Read for tables whose first entity
\* has two rows, so that this difference exists.)
C20_Original ==
    (/\ ret.op = "zouwu.TSDataset"
     /\ ValidCall(ret)
     /\ ret.dtype = "datetime64"
     /\ Len(ret.data.val.rows) > 0
     /\ Len(TimesOf(ret, np_unique(ret.data.val, ret.id_col.val)[1])) >= 2) =>
        /\ ~ret.raised
        /\ ret.obj.val._id_bag = np_unique(ret.data.val, ret.id_col.val)
        /\ ret.obj.val._interval =
              TimesOf(ret, ret.obj.val._id_bag[1])[2] - TimesOf(ret, ret.obj.val._id_bag[1])[1]

\* what a trial with this configuration returns when it is the only one that ever
\* runs on the stored input
SoloResult(config) ==
    IF store.mode = "dataframe"
    THEN ft_fit_transform(store.ft,
                          IF config.imputation = "none" THEN store.input_data
                          ELSE imputer_impute(config.imputation, store.input_data),
                          config).out
    ELSE LET res == roll_object(store.input_data, config.past_seq_len,
                                config.future_seq_len, ListArg(config.selected_features))
         IN IF res.exc # "" THEN Raise(res.exc)
            ELSE to_numpy_result(res.self.numpy_x, res.self.numpy_y)

TenDerivedNames ==
    <<"MINUTE(datetime)", "DAY(datetime)", "DAYOFYEAR(datetime)", "HOUR(datetime)",
      "WEEKDAY(datetime)", "WEEKOFYEAR(datetime)", "MONTH(datetime)",
      "IS_AWAKE(datetime)", "IS_BUSY_HOURS(datetime)", "IS_WEEKEND(datetime)">>

\* C22: every gen_dt_feature call that returns makes feature_col ten names longer
\* and adds each derived name once more, so after n calls on a dataset with rows
\* each name is listed n times, while the table holds each derived column once; a
\* roll with the default feature list then records and selects the repeated names.
C22_RepeatedGenRepeatsNames ==
    [][/\ (ret'.op = "gen_dt_feature" /\ ~ret'.raised /\ hist'.gen = hist.gen + 1) =>
             /\ Len(feature_col') = Len(feature_col) + 10
             /\ \A k \in 1..10 :
                   /\ Count(feature_col', TenDerivedNames[k])
                         = Count(feature_col, TenDerivedNames[k]) + 1
                   /\ Count(df'.columns, TenDerivedNames[k]) = 1
       /\ id_list' # <<>> =>
             \A k \in 1..10 : Count(feature_col', TenDerivedNames[k]) = hist'.gen
       /\ (ret'.op = "roll" /\ ~ret'.raised /\ ret'.feature_col = NoneArg) =>
             /\ RollFeature' = feature_col'
             /\ numpy_x'.shape[3] = (Len(target_col') + Len(feature_col'))
                                    * (IF ret'.id_sensitive THEN Len(id_list') ELSE 1)]_vars

\* gen_dt_feature was called twice and a default roll made windows over 21 features
C22_Witness ==
    /\ hist.gen = 2
    /\ ret.op = "roll" /\ ~ret.raised /\ ret.feature_col = NoneArg
    /\ Len(feature_col) = 21
    /\ Count(RollFeature, "HOUR(datetime)") = 2
    /\ Count(df.columns, "HOUR(datetime)") = 1
    /\ numpy_x.shape[1] > 0
    /\ numpy_x.shape[3] = Len(target_col) + 21

\* the training_iteration limit the recipe of compile call r configured, 1 when it
\* gives none
ConfiguredLimit(r) ==
    IF "training_iteration" \in DOMAIN r.runtime_params
    THEN r.runtime_params["training_iteration"] ELSE 1

\* report i with metric value v meets a stop criterion of the recipe of call r
StopReached(r, i, v) ==
    \/ i >= ConfiguredLimit(r)
    \/ /\ "reward_metric" \in DOMAIN r.runtime_params
       /\ IF r.mode = "max" THEN v >= r.runtime_params["reward_metric"]
          ELSE v <= 0 - r.runtime_params["reward_metric"]

\* C23: compile fails exactly for runtime parameters with a stop key other than
\* reward_metric and training_iteration; a trial is stopped exactly when its last
\* report reached the iteration limit (1 by default) or the metric threshold
\* (>= reward_metric in max mode, <= -reward_metric in min mode), no earlier report
\* of it did, and a report of one trial never stops another trial.
C23_TrialStopsAtFirstReachedReport ==
    [][/\ ret'.op = "compile" =>
             /\ ret'.raised <=> (DOMAIN ret'.runtime_params)
                                \ {"num_samples", "reward_metric", "training_iteration"} # {}
             /\ stopper'.raised <=> ret'.raised
       /\ (ret'.op = "compile" /\ ~ret'.raised) =>
             \A t \in Trials :
                /\ trials'[t].stopped <=>
                      /\ trials'[t].i >= 1
                      /\ StopReached(ret', trials'[t].i, trials'[t].values[trials'[t].i])
                /\ \A k \in 1..(trials'[t].i - 1) : ~StopReached(ret', k, trials'[t].values[k])
       /\ \A t, u \in Trials :
             (t # u /\ trials'[t] # trials[t]) => trials'[u] = trials[u]]_vars

\* in min mode with reward_metric -2 and limit 3 one trial stopped at its second
\* report on the metric, another at its third report on the limit
C23_Witness ==
    /\ ret.op = "compile" /\ ~ret.raised /\ ret.mode = "min"
    /\ "reward_metric" \in DOMAIN ret.runtime_params
    /\ ret.runtime_params["reward_metric"] = 0 - 2
    /\ ConfiguredLimit(ret) = 3
    /\ \E t, u \in Trials :
          /\ trials[t].stopped /\ trials[t].values = <<3, 2>>
          /\ trials[u].stopped /\ trials[u].values = <<3, 3, 3>>

\* value a is strictly better than value b in the mode of the compiled metric
StrictlyBetter(a, b) == IF ret.mode = "max" THEN a > b ELSE a < b

BestOf(values) == IF ret.mode = "max" THEN Max(Range(values)) ELSE Min(Range(values))

\* C27: after iteration i of a trial the report carries training_iteration i, the
\* value just returned and, as best_<metric>, the best of all values returned so far
\* (maximum in max mode, minimum in min mode); the checkpoint was written in exactly
\* the iterations whose value is strictly better than every earlier one, the first
\* iteration among them.
C27_ReportCarriesBestSoFar ==
    \A t \in Trials :
        trials[t].i >= 1 =>
            /\ Len(trials[t].values) = trials[t].i
            /\ trials[t].report.val.training_iteration = trials[t].i
            /\ trials[t].report.val.metric = trials[t].values[trials[t].i]
            /\ trials[t].report.val.best_metric = BestOf(trials[t].values)
            /\ trials[t].report.val.checkpoint = "best.ckpt"
            /\ trials[t].saved =
                  {k \in 1..trials[t].i :
                      \A j \in 1..(k - 1) :
                          StrictlyBetter(trials[t].values[k], trials[t].values[j])}

\* a min-mode trial returned 2, 2 and 1: checkpoints at iterations 1 and 3 only
C27_Witness ==
    /\ ret.op = "compile" /\ ret.mode = "min"
    /\ \E t \in Trials :
          /\ trials[t].values = <<2, 2, 1>>
          /\ trials[t].saved = {1, 3}
          /\ trials[t].report.val.best_metric = 1

\* C24: predict, evaluate and save raise RuntimeError and do not reach the internal
\* model as long as no fit and no restore has built it; once a fit or a restore has
\* built it they hand the call to the internal model.
C24_GuardedUntilBuilt ==
    ret.op \in {"predict", "evaluate", "save"} =>
        /\ forecaster.built_by = "none" =>
              (ret.raised /\ ret.exc = "RuntimeError" /\ ~ret.delegated)
        /\ forecaster.built_by # "none" => (~ret.raised /\ ret.delegated)

\* save was called on a forecaster that a returning fit had built
C24_Witness ==
    /\ ret.op = "save" /\ ret.delegated /\ forecaster.built_by = "fit"
    /\ forecaster.internal.model_built

\* the shapes a forecaster with this configuration is meant to take
ShapesAsConfigured(data_config, x_shape, y_shape) ==
    /\ Len(x_shape) = 3 /\ Len(y_shape) = 3
    /\ x_shape[2] = data_config.past_seq_len
    /\ x_shape[3] = data_config.input_feature_num
    /\ y_shape[2] = data_config.future_seq_len
    /\ y_shape[3] = data_config.output_feature_num

\* C25 as stated: fit hands x and y to the internal model exactly when x has shape
\* (batch, past_seq_len, input_feature_num) and y has shape (batch, future_seq_len,
\* output_feature_num), and raises AssertionError for every other pair of shapes.
C25_Original ==
    ret.op = "fit" =>
        IF ShapesAsConfigured(forecaster.data_config, ret.x_shape, ret.y_shape)
        THEN ret.delegated
        ELSE ret.raised /\ ret.exc = "AssertionError" /\ ~ret.delegated

\* the user put selected_features into the search space of the constructor
UserSelectedFeatures ==
    search_space_get(trainer.user_search_space, "selected_features").tag # "None"

\* C26 as stated: a fit with TSDataset train and validation data raises the
\* selected_features ValueError only for a trainer whose user-supplied search space
\* holds selected_features; for any other trainer every such call, the first and the
\* later ones, gets past the preparation with selected_features set in the model's
\* search space.
C26_Original ==
    (ret.op = "AutoTSTrainer.fit" /\ ret.with_datasets) =>
        /\ ret.raised => UserSelectedFeatures
        /\ ~UserSelectedFeatures =>
              /\ ~ret.raised
              /\ "selected_features" \in DOMAIN trainer.model.search_space

\* C28: in every state reached by impute, deduplicate, gen_dt_feature, scale, unscale
\* and roll calls on a dataset from from_pandas, the identifier list is the one
\* computed at construction from the frame the caller passed, and it is the sorted
\* list of the distinct identifiers in the current table, each of them with at least
\* one row: no entity disappears, appears or becomes empty.
C28_IdListIsTheEntitiesOfTheTable ==
    /\ id_list = np_unique(caller.passed.df.val, id_col)
    /\ id_list = np_unique(df, id_col)
    /\ \A i \in 1..Len(id_list) : Len(SubDf(df, id_list[i]).rows) > 0

\* a deduplicate that dropped rows of a table with two entities
C28_Witness ==
    /\ ret.op = "deduplicate"
    /\ ~ret.raised
    /\ Len(df.rows) < ret.rows_before
    /\ Len(id_list) = 2

\* the calls that clean, extend or rescale the table
TableCalls == {"impute", "deduplicate", "gen_dt_feature", "scale", "unscale"}

\* C29 as stated: impute, deduplicate, gen_dt_feature, scale and unscale leave the
\* result of the last roll as it was: numpy_x, numpy_y, the rolled feature and target
\* lists and id_sensitive have the same values after the call as before it.
C29_Original ==
    [][(roll_feature # None /\ ret'.op \in TableCalls) =>
          /\ numpy_x' = numpy_x
          /\ numpy_y' = numpy_y
          /\ RollFeature' = RollFeature
          /\ RollTarget' = RollTarget
          /\ id_sensitive' = id_sensitive]_vars

\* C30 as stated: a dataset built by from_pandas is isolated from the caller's
\* inputs: whatever is called on the dataset afterwards, the frame and the target
\* and extra-feature column lists the caller passed hold what they held at the call.
C30_Original ==
    /\ CallerValue(caller.df) = caller.passed.df
    /\ CallerValue(caller.target_col) = caller.passed.target_col
    /\ CallerValue(caller.extra_feature_col) = caller.passed.extra_feature_col

====
